---------------------------- MODULE Spec2Model ----------------------------
(***************************************************************************)
(* A model of the decision-combination core of the sports prediction       *)
(* system: the odds-value engine (prediction_engine/odds_analyzer.py),     *)
(* the stacking meta-learner (ml_models/meta_learner.py), the ensemble     *)
(* (ml_models/ensemble.py) and the predictor that merges them              *)
(* (prediction_engine/predictor.py).                                       *)
(*                                                                         *)
(* Python floats are modelled as exact rationals <<n, d>> in lowest terms  *)
(* with d > 0.  Prices and probabilities are written in hundredths.        *)
(***************************************************************************)
EXTENDS Integers, Sequences, FiniteSets, TLC

VARIABLES
    sport,          \* the sport the analyzers and the predictor were built for
    odds_data,      \* match_data['odds'] handed to the odds engine
    odds_call,      \* the last call on the OddsAnalyzer and what it returned
    kelly_call,     \* the last pair of _calculate_kelly_stake calls
    models,         \* the base model adapters: name -> [is_trained]
    ml,             \* the MetaLearner object's fields
    ml_call,        \* the last call on the MetaLearner and its outcome
    ensemble,       \* the EnsemblePredictor object's fields
    prediction,     \* the last call on the SportsPredictor and its outcome
    threads,        \* two threads sharing one MetaLearner: where each one stands
    users,          \* the UserManager: its users, its lock and the coroutines on it
    limiter         \* the RateLimiter, the clock and the requests it has released

vars == <<sport, odds_data, odds_call, kelly_call, models, ml, ml_call, ensemble, prediction,
          threads, users, limiter>>

----------------------------------------------------------------------------
(* Float arithmetic, as exact rationals.                                    *)

Abs(x) == IF x < 0 THEN -x ELSE x

RECURSIVE GCD(_, _)
GCD(a, b) == IF b = 0 THEN a ELSE GCD(b, a % b)

\* the rational n/d in lowest terms, d > 0
Rat(n, d) ==
    LET g == GCD(Abs(n), Abs(d))
        s == IF d < 0 THEN -1 ELSE 1
    IN  <<(s * n) \div g, (s * d) \div g>>

RZero == <<0, 1>>
ROne == <<1, 1>>
RAdd(a, b) == Rat(a[1] * b[2] + b[1] * a[2], a[2] * b[2])
RSub(a, b) == Rat(a[1] * b[2] - b[1] * a[2], a[2] * b[2])
RMul(a, b) == Rat(a[1] * b[1], a[2] * b[2])
RDiv(a, b) == Rat(a[1] * b[2], a[2] * b[1])
RLt(a, b) == a[1] * b[2] < b[1] * a[2]
RLe(a, b) == a[1] * b[2] <= b[1] * a[2]
RGt(a, b) == RLt(b, a)
RMax(a, b) == IF RLt(a, b) THEN b ELSE a
RMin(a, b) == IF RLt(b, a) THEN b ELSE a

\* a value written in hundredths (250 is 2.50, 45 is 0.45)
Hundredths(x) == Rat(x, 100)

RECURSIVE RSum(_)
RSum(s) == IF s = <<>> THEN RZero ELSE RAdd(Head(s), RSum(Tail(s)))

\* np.mean of a non-empty list
Mean(s) == RDiv(RSum(s), <<Len(s), 1>>)

----------------------------------------------------------------------------
(* The odds input.  odds_data is None, an empty dict, a dict without a      *)
(* 'bookmakers' entry, or a dict whose 'bookmakers' list holds, bookmaker   *)
(* by bookmaker, the quoted price of each market outcome.  A quote sits in  *)
(* a slot: slot s belongs to bookmaker ((s-1) \div 7) + 1 and to market     *)
(* outcome ((s-1) % 7) + 1, so slots in increasing order are the order in   *)
(* which _extract_odds_summary walks the bookmakers.                        *)

Bookmakers == <<"BookA", "BookB">>

MarketOutcomes ==
    << <<"h2h", "home">>, <<"h2h", "away">>, <<"h2h", "draw">>,
       <<"spreads", "home">>, <<"spreads", "away">>,
       <<"totals", "over">>, <<"totals", "under">> >>

Slots == 1 .. (Len(Bookmakers) * Len(MarketOutcomes))
SlotBookmaker(s) == Bookmakers[((s - 1) \div Len(MarketOutcomes)) + 1]
SlotKey(s) == MarketOutcomes[((s - 1) % Len(MarketOutcomes)) + 1]

\* decimal odds in hundredths offered by the bookmakers
Prices == {200, 400}

\* how many quotes a match carries at most
MaxQuotes == 3

NoOddsKinds == {"None", "empty_dict", "no_bookmakers_key"}

OddsMissing(kind) == [kind |-> kind, bookmakers |-> <<>>]

OddsWith(quotes) == [kind |-> "bookmakers", bookmakers |-> quotes]

\* every quote function over at most MaxQuotes slots with prices from P
QuoteSets(P) ==
    UNION { [S -> P] : S \in { T \in SUBSET Slots : Cardinality(T) <= MaxQuotes } }

----------------------------------------------------------------------------
(* OddsAnalyzer                                                             *)

min_value_threshold == Hundredths(5)

RECURSIVE ItemsFrom(_, _, _)
\* the [odds, bookmaker] items of one market outcome, in bookmaker order
ItemsFrom(quotes, key, s) ==
    IF s > Len(Bookmakers) * Len(MarketOutcomes) THEN <<>>
    ELSE IF s \in DOMAIN quotes /\ SlotKey(s) = key
         THEN <<[odds |-> quotes[s], bookmaker |-> SlotBookmaker(s)]>>
              \o ItemsFrom(quotes, key, s + 1)
         ELSE ItemsFrom(quotes, key, s + 1)

_extract_odds_summary(od) ==
    LET q == od.bookmakers
        I(m, o) == ItemsFrom(q, <<m, o>>, 1)
    IN  [h2h |-> [home |-> I("h2h", "home"), away |-> I("h2h", "away"),
                  draw |-> I("h2h", "draw")],
         spreads |-> [home |-> I("spreads", "home"), away |-> I("spreads", "away")],
         totals |-> [over |-> I("totals", "over"), under |-> I("totals", "under")],
         bookmakers |-> { SlotBookmaker(s) : s \in DOMAIN q }]

SeqRange(s) == { s[i] : i \in DOMAIN s }

\* every item list of an odds summary
AllItemLists(os) ==
    { os.h2h[o] : o \in {"home", "away", "draw"} }
    \cup { os.spreads[o] : o \in {"home", "away"} }
    \cup { os.totals[o] : o \in {"over", "under"} }

\* 1/odds divides by zero (ZeroDivisionError) when a price is 0
ImpliedRaises(os) ==
    \E l \in AllItemLists(os) : \E it \in SeqRange(l) : it.odds = 0

InverseOdds(items) == [i \in DOMAIN items |-> RDiv(ROne, Hundredths(items[i].odds))]

\* np.mean([1/odds ...]) if the list is non-empty else 0
MeanInverse(items) == IF items = <<>> THEN RZero ELSE Mean(InverseOdds(items))

_calculate_implied_probabilities(os) ==
    LET raw == [o \in {"home", "away", "draw"} |-> MeanInverse(os.h2h[o])]
        total_prob == RAdd(raw["home"], RAdd(raw["away"], raw["draw"]))
    IN  [h2h |-> IF RGt(total_prob, RZero)
                 THEN [o \in {"home", "away", "draw"} |-> RDiv(raw[o], total_prob)]
                 ELSE raw,
         spreads |-> [o \in {"home", "away"} |-> MeanInverse(os.spreads[o])],
         totals |-> [o \in {"over", "under"} |-> MeanInverse(os.totals[o])]]

\* the first item, whatever its odds
FirstItem(items) == items[1]

RECURSIVE MaxByOdds(_)
\* max(items, key=lambda x: x['odds']): the first item with the highest odds
MaxByOdds(items) ==
    IF Len(items) = 1 THEN items[1]
    ELSE LET rest == MaxByOdds(Tail(items))
         IN  IF rest.odds > items[1].odds THEN rest ELSE items[1]

\* the Kelly fraction without the 0.25 cap
KellyStakeUncapped(probability, odds) ==
    IF RLe(odds, ROne) \/ RLe(probability, RZero) THEN RZero
    ELSE LET b == RSub(odds, ROne)
         IN  RMax(RZero, RDiv(RSub(RMul(b, probability), RSub(ROne, probability)), b))

_calculate_kelly_stake(probability, odds) ==
    IF RLe(odds, ROne) \/ RLe(probability, RZero) THEN RZero
    ELSE LET b == RSub(odds, ROne)
             p == probability
             q == RSub(ROne, p)
             kelly_fraction == RDiv(RSub(RMul(b, p), q), b)
         IN  RMax(RZero, RMin(kelly_fraction, Hundredths(25)))

\* the model probabilities _identify_value_bets falls back to
DefaultModelProbabilities ==
    [home |-> Hundredths(45), draw |-> Hundredths(25), away |-> Hundredths(30)]

RECURSIVE InsertByValue(_, _)
\* x placed after every entry whose expected_value is at least its own
InsertByValue(sorted, x) ==
    IF sorted = <<>> THEN <<x>>
    ELSE IF RLt(Head(sorted).expected_value, x.expected_value)
         THEN <<x>> \o sorted
         ELSE <<Head(sorted)>> \o InsertByValue(Tail(sorted), x)

RECURSIVE SortedByValue(_)
\* sorted(value_bets, key=expected_value, reverse=True): stable, descending
SortedByValue(s) ==
    IF s = <<>> THEN <<>>
    ELSE InsertByValue(SortedByValue(SubSeq(s, 1, Len(s) - 1)), s[Len(s)])

\* the entry _identify_value_bets appends for one outcome, or nothing
ValueBetFor(os, implied, mp, outcome) ==
    LET model_prob == mp[outcome]
        market_prob == implied.h2h[outcome]
        outcome_odds == os.h2h[outcome]
    IN  IF outcome \in DOMAIN mp /\ RGt(model_prob, market_prob) /\ outcome_odds # <<>>
        THEN LET best_odds_info == MaxByOdds(outcome_odds)
                 best_odds == Hundredths(best_odds_info.odds)
                 expected_value == RSub(RMul(model_prob, best_odds), ROne)
             IN  IF RGt(expected_value, min_value_threshold)
                 THEN <<[market |-> "h2h",
                         outcome |-> outcome,
                         model_probability |-> model_prob,
                         market_probability |-> market_prob,
                         best_odds |-> best_odds,
                         bookmaker |-> best_odds_info.bookmaker,
                         expected_value |-> expected_value,
                         recommended_stake |-> _calculate_kelly_stake(model_prob, best_odds)]>>
                 ELSE <<>>
        ELSE <<>>

_identify_value_bets(os, implied, mp) ==
    SortedByValue(ValueBetFor(os, implied, mp, "home")
                  \o ValueBetFor(os, implied, mp, "away")
                  \o ValueBetFor(os, implied, mp, "draw"))


Inverse(item) == RDiv(ROne, Hundredths(item.odds))

\* one leg of an arbitrage opportunity
ArbitrageBet(name, best, total_inverse) ==
    [outcome |-> name,
     odds |-> Hundredths(best.odds),
     bookmaker |-> best.bookmaker,
     stake_percentage |-> RMul(RDiv(Inverse(best), total_inverse), <<100, 1>>)]

\* the head-to-head check: all of home, away and draw must carry a quote
H2HArbitrage(os) ==
    IF \A outcome \in {"home", "away", "draw"} : os.h2h[outcome] # <<>>
    THEN LET best_home == MaxByOdds(os.h2h["home"])
             best_away == MaxByOdds(os.h2h["away"])
             best_draw == MaxByOdds(os.h2h["draw"])
             total_inverse == RAdd(Inverse(best_home),
                                   RAdd(Inverse(best_away), Inverse(best_draw)))
         IN  IF RLt(total_inverse, ROne)
             THEN <<[market |-> "h2h",
                     profit_margin |-> RMul(RSub(ROne, total_inverse), <<100, 1>>),
                     bets |-> <<ArbitrageBet("home", best_home, total_inverse),
                                ArbitrageBet("away", best_away, total_inverse),
                                ArbitrageBet("draw", best_draw, total_inverse)>>]>>
             ELSE <<>>
    ELSE <<>>

\* the spreads check, two outcomes
SpreadsArbitrage(os) ==
    IF os.spreads["home"] # <<>> /\ os.spreads["away"] # <<>>
    THEN LET best_home_spread == MaxByOdds(os.spreads["home"])
             best_away_spread == MaxByOdds(os.spreads["away"])
             total_inverse == RAdd(Inverse(best_home_spread), Inverse(best_away_spread))
         IN  IF RLt(total_inverse, ROne)
             THEN <<[market |-> "spreads",
                     profit_margin |-> RMul(RSub(ROne, total_inverse), <<100, 1>>),
                     bets |-> <<ArbitrageBet("home_spread", best_home_spread, total_inverse),
                                ArbitrageBet("away_spread", best_away_spread, total_inverse)>>]>>
             ELSE <<>>
    ELSE <<>>

\* sorted(arbitrage_opportunities, key=profit_margin, reverse=True)
SortedByMargin(s) ==
    IF Len(s) = 2 /\ RLt(s[1].profit_margin, s[2].profit_margin)
    THEN <<s[2], s[1]>>
    ELSE s

_find_arbitrage_opportunities(os) ==
    SortedByMargin(H2HArbitrage(os) \o SpreadsArbitrage(os))

\* np.var of a non-empty list
Variance(s) ==
    LET mu == Mean(s)
    IN  Mean([i \in DOMAIN s |-> RMul(RSub(s[i], mu), RSub(s[i], mu))])

\* np.std(values) < bound, for a bound that is not negative
StdBelow(values, bound) == RLt(Variance(values), RMul(bound, bound))

_calculate_odds_confidence(os) ==
    LET num_bookmakers == Cardinality(os.bookmakers)
        by_bookmakers == IF num_bookmakers >= 5 THEN Hundredths(90)
                         ELSE IF num_bookmakers >= 3 THEN Hundredths(70)
                         ELSE Hundredths(50)
        markets_available ==
            Cardinality({ market \in {"h2h", "spreads", "totals"} :
                            \E o \in DOMAIN os[market] : os[market][o] # <<>> })
        by_markets == IF markets_available >= 2 THEN Hundredths(80)
                      ELSE IF markets_available >= 1 THEN Hundredths(60)
                      ELSE Hundredths(30)
        home_odds_values == [i \in DOMAIN os.h2h["home"] |->
                                Hundredths(os.h2h["home"][i].odds)]
        by_consistency ==
            IF Len(home_odds_values) > 1
            THEN IF StdBelow(home_odds_values, Hundredths(10)) THEN <<Hundredths(80)>>
                 ELSE IF StdBelow(home_odds_values, Hundredths(20)) THEN <<Hundredths(60)>>
                 ELSE <<Hundredths(40)>>
            ELSE <<>>
    IN  Mean(<<by_bookmakers, by_markets>> \o by_consistency)

\* what analyze_match_odds returns when the match carries no odds
NoOddsAnalysis ==
    [raised |-> FALSE,
     odds_available |-> FALSE,
     value_bets |-> <<>>,
     arbitrage_opportunities |-> <<>>,
     confidence |-> RZero]

\* the outcome of a call that ended in an exception
Raised(what) == [raised |-> TRUE, error |-> what]

\* total_probability, overround, efficiency and margin_percentage of one market
EfficiencyOf(total_prob) ==
    [total_probability |-> total_prob,
     overround |-> RSub(total_prob, ROne),
     efficiency |-> IF RGt(total_prob, RZero) THEN RDiv(ROne, total_prob) ELSE RZero,
     margin_percentage |-> RMul(RSub(total_prob, ROne), <<100, 1>>)]

\* OddsAnalyzer._calculate_market_efficiency
_calculate_market_efficiency(implied_probabilities) ==
    LET h2h_probs == implied_probabilities.h2h
        spreads_probs == implied_probabilities.spreads
    IN  [h2h |-> EfficiencyOf(RAdd(h2h_probs["home"],
                                   RAdd(h2h_probs["away"], h2h_probs["draw"]))),
         spreads |-> EfficiencyOf(RAdd(spreads_probs["home"], spreads_probs["away"]))]

\* the test with only the missing odds seen
HasNoOddsNoneOnly(od) == od.kind = "None"

\* not odds_data or 'bookmakers' not in odds_data
HasNoOdds(od) == od.kind \in NoOddsKinds

\* recommendations, which no caller reads, are left out
analyze_match_odds(od) ==
    IF HasNoOdds(od) THEN NoOddsAnalysis
    ELSE LET odds_summary == _extract_odds_summary(od)
         IN  IF ImpliedRaises(odds_summary) THEN Raised("ZeroDivisionError")
             ELSE LET implied_probabilities == _calculate_implied_probabilities(odds_summary)
                  IN  [raised |-> FALSE,
                       odds_available |-> TRUE,
                       odds_summary |-> odds_summary,
                       implied_probabilities |-> implied_probabilities,
                       value_bets |-> _identify_value_bets(odds_summary,
                                          implied_probabilities, DefaultModelProbabilities),
                       arbitrage_opportunities |-> _find_arbitrage_opportunities(odds_summary),
                       market_efficiency |->
                           _calculate_market_efficiency(implied_probabilities),
                       confidence |-> _calculate_odds_confidence(odds_summary)]

----------------------------------------------------------------------------
(* The odds engine on its own: a match's odds arrive, then the engine is    *)
(* called on them once (it keeps no state between calls).                   *)

\* model distributions a caller may hand to _identify_value_bets, in hundredths
ModelProbabilityChoices ==
    { [home |-> Hundredths(45), draw |-> Hundredths(25), away |-> Hundredths(30)],
      [home |-> Hundredths(30), draw |-> Hundredths(25), away |-> Hundredths(45)],
      [home |-> Hundredths(20), draw |-> Hundredths(50), away |-> Hundredths(30)] }

\* a three-outcome and a two-outcome sport of settings.supported_sports
Sports == {"premier_league", "nba"}

NoCall == [op |-> "none"]

KellyIdle == [op |-> "none"]

ModelsIdle == <<>>

MetaIdle == <<>>

EnsembleIdle == [is_trained |-> FALSE]

\* no thread has entered the MetaLearner
NoThreads == [trainer |-> [pc |-> "idle"], inference |-> [pc |-> "idle"]]

\* no UserManager has been built
NoUsers == [users_data |-> <<>>, lock |-> "free", tasks |-> <<>>]

\* no RateLimiter has been built
NoLimiter == [now |-> 0, request_times |-> <<>>, released |-> <<>>]

InitOdds ==
    /\ sport \in Sports
    /\ odds_data \in { OddsMissing(k) : k \in NoOddsKinds }
                     \cup { OddsWith(q) : q \in QuoteSets(Prices) }
    /\ odds_call = NoCall
    /\ kelly_call = KellyIdle
    /\ models = ModelsIdle
    /\ ml = MetaIdle
    /\ ml_call = NoCall
    /\ ensemble = EnsembleIdle
    /\ prediction = NoCall
    /\ threads = NoThreads
    /\ users = NoUsers
    /\ limiter = NoLimiter

AnalyzeMatchOdds ==
    /\ odds_call = NoCall
    /\ odds_call' = [op |-> "analyze_match_odds", result |-> analyze_match_odds(odds_data)]
    /\ UNCHANGED <<users, limiter, threads, sport, odds_data, kelly_call, models, ml, ml_call, ensemble, prediction>>

\* _identify_value_bets called with the caller's own model probabilities
IdentifyValueBets ==
    /\ odds_call = NoCall
    /\ odds_data.kind = "bookmakers"
    /\ \E mp \in ModelProbabilityChoices :
         LET os == _extract_odds_summary(odds_data)
         IN  odds_call' = [op |-> "identify_value_bets",
                           model_probabilities |-> mp,
                           result |-> _identify_value_bets(os,
                                          _calculate_implied_probabilities(os), mp)]
    /\ UNCHANGED <<users, limiter, threads, sport, odds_data, kelly_call, models, ml, ml_call, ensemble, prediction>>

NextOdds == AnalyzeMatchOdds \/ IdentifyValueBets

SpecOdds == InitOdds /\ [][NextOdds]_vars


----------------------------------------------------------------------------
(* Properties of the odds engine, stated over the quotes themselves.        *)

\* the sports whose head-to-head market has no draw outcome
TwoOutcomeSports == {"nba"}

\* the outcomes a market is made of
OutcomesOf(market) ==
    CASE market = "h2h" -> IF sport \in TwoOutcomeSports THEN {"home", "away"}
                           ELSE {"home", "away", "draw"}
      [] market = "spreads" -> {"home", "away"}
      [] market = "totals" -> {"over", "under"}

\* the prices the bookmakers quote for one market outcome
QuotedPrices(market, outcome) ==
    { odds_data.bookmakers[s] :
        s \in { t \in DOMAIN odds_data.bookmakers : SlotKey(t) = <<market, outcome>> } }

BestPrice(market, outcome) ==
    CHOOSE p \in QuotedPrices(market, outcome) :
        \A q \in QuotedPrices(market, outcome) : q <= p

RECURSIVE InverseBestSum(_, _)
\* the sum over the outcomes of 1 / best price
InverseBestSum(market, outcomes) ==
    IF outcomes = {} THEN RZero
    ELSE LET o == CHOOSE x \in outcomes : TRUE
         IN  RAdd(RDiv(ROne, Hundredths(BestPrice(market, o))),
                  InverseBestSum(market, outcomes \ {o}))

ArbitrageExists(market) ==
    /\ \A o \in OutcomesOf(market) : QuotedPrices(market, o) # {}
    /\ RLt(InverseBestSum(market, OutcomesOf(market)), ROne)

AnalysisReturned ==
    /\ odds_call.op = "analyze_match_odds"
    /\ ~odds_call.result.raised
    /\ odds_call.result.odds_available

\* C3: find_arbitrage returns an opportunity for a market if and only if
\* every outcome of that market has a best price and the sum of 1/best_price
\* over them is strictly below 1; the head-to-head market of a two-outcome
\* sport is made of home and away only.
C3_ArbitrageIffAllPricedAndSumBelowOne ==
    AnalysisReturned =>
        \A m \in {"h2h", "spreads", "totals"} :
            (\E i \in DOMAIN odds_call.result.arbitrage_opportunities :
                 odds_call.result.arbitrage_opportunities[i].market = m)
            <=> ArbitrageExists(m)

\* the value bets returned by the last call, and the model probabilities used
ValueBetsReturned ==
    IF odds_call.op = "identify_value_bets" THEN odds_call.result
    ELSE odds_call.result.value_bets

ModelProbabilitiesUsed ==
    IF odds_call.op = "identify_value_bets" THEN odds_call.model_probabilities
    ELSE DefaultModelProbabilities

ValueBetsCallReturned ==
    \/ odds_call.op = "identify_value_bets"
    \/ AnalysisReturned

\* the market's implied probability of a head-to-head outcome
MarketImplied(outcome) ==
    _calculate_implied_probabilities(_extract_odds_summary(odds_data)).h2h[outcome]

\* p * best price - 1, from the quotes
ExpectedValueOf(outcome) ==
    RSub(RMul(ModelProbabilitiesUsed[outcome],
              Hundredths(BestPrice("h2h", outcome))), ROne)

\* an outcome that is to be surfaced as a value bet
IsValueOutcome(outcome) ==
    /\ QuotedPrices("h2h", outcome) # {}
    /\ RGt(ModelProbabilitiesUsed[outcome], MarketImplied(outcome))
    /\ RGt(ExpectedValueOf(outcome), Hundredths(5))

\* C4: every value bet returned has model_probability above the market's
\* implied probability, carries the highest price any bookmaker quotes for
\* its outcome, has expected_value = model_probability * best_price - 1 above
\* the 0.05 threshold; the list is in non-increasing order of expected_value;
\* and every outcome that meets these conditions is in the list, once.
C4_ValueBetsSoundSortedComplete ==
    ValueBetsCallReturned =>
        LET vb == ValueBetsReturned
        IN  /\ \A i \in DOMAIN vb :
                 /\ vb[i].outcome \in {"home", "away", "draw"}
                 /\ vb[i].model_probability = ModelProbabilitiesUsed[vb[i].outcome]
                 /\ RGt(vb[i].model_probability, MarketImplied(vb[i].outcome))
                 /\ QuotedPrices("h2h", vb[i].outcome) # {}
                 /\ vb[i].best_odds = Hundredths(BestPrice("h2h", vb[i].outcome))
                 /\ vb[i].expected_value = ExpectedValueOf(vb[i].outcome)
                 /\ RGt(vb[i].expected_value, Hundredths(5))
            /\ \A i, j \in DOMAIN vb :
                 i < j => /\ RLe(vb[j].expected_value, vb[i].expected_value)
                          /\ vb[i].outcome # vb[j].outcome
            /\ \A o \in {"home", "away", "draw"} :
                 IsValueOutcome(o) => \E i \in DOMAIN vb : vb[i].outcome = o

\* C4 witness: two value bets were returned, in an order other than the order
\* in which the outcomes are examined.
C4_Witness ==
    /\ odds_call.op = "identify_value_bets"
    /\ Len(odds_call.result) = 2
    /\ odds_call.result[1].outcome = "away"
    /\ odds_call.result[2].outcome = "home"
    /\ RLt(odds_call.result[2].expected_value, odds_call.result[1].expected_value)

----------------------------------------------------------------------------
(* The Kelly stake on its own: two probabilities p1 <= p2 and one price     *)
(* are drawn, and the stake is computed for both.                           *)

\* probabilities handed to _calculate_kelly_stake, in hundredths
KellyProbabilities == {-10, 0, 10, 25, 30, 40, 50, 60, 75, 100, 120}

\* decimal odds handed to _calculate_kelly_stake, in hundredths
KellyOdds == {0, 50, 100, 110, 150, 200, 400, 1000}

InitKelly ==
    /\ sport = "premier_league"
    /\ odds_data = OddsMissing("None")
    /\ odds_call = NoCall
    /\ \E p1 \in KellyProbabilities, p2 \in KellyProbabilities, o \in KellyOdds :
         /\ p1 <= p2
         /\ kelly_call = [op |-> "args", probability1 |-> Hundredths(p1),
                          probability2 |-> Hundredths(p2), odds |-> Hundredths(o)]
    /\ models = ModelsIdle
    /\ ml = MetaIdle
    /\ ml_call = NoCall
    /\ ensemble = EnsembleIdle
    /\ prediction = NoCall
    /\ threads = NoThreads
    /\ users = NoUsers
    /\ limiter = NoLimiter

KellyStake ==
    /\ kelly_call.op = "args"
    /\ kelly_call' = [kelly_call EXCEPT !.op = "kelly"]
                     @@ [stake1 |-> _calculate_kelly_stake(kelly_call.probability1,
                                                           kelly_call.odds),
                         stake2 |-> _calculate_kelly_stake(kelly_call.probability2,
                                                           kelly_call.odds)]
    /\ UNCHANGED <<users, limiter, threads, sport, odds_data, odds_call, models, ml, ml_call, ensemble, prediction>>

NextKelly == KellyStake

SpecKelly == InitKelly /\ [][NextKelly]_vars


\* C5: the Kelly stake always lies in [0, 0.25], is 0 whenever price <= 1 or
\* p <= 0, and for a fixed price above 1 does not decrease when p grows.
C5_KellyBoundedAndMonotone ==
    kelly_call.op = "kelly" =>
        /\ \A k \in {kelly_call.stake1, kelly_call.stake2} :
             RLe(RZero, k) /\ RLe(k, Hundredths(25))
        /\ RLe(kelly_call.odds, ROne) => kelly_call.stake1 = RZero /\ kelly_call.stake2 = RZero
        /\ RLe(kelly_call.probability1, RZero) => kelly_call.stake1 = RZero
        /\ RLe(kelly_call.probability2, RZero) => kelly_call.stake2 = RZero
        /\ RGt(kelly_call.odds, ROne) => RLe(kelly_call.stake1, kelly_call.stake2)

\* C5 witness: at one price above 1, a larger probability earned a strictly
\* larger stake, neither of them clamped.
C5_Witness ==
    /\ kelly_call.op = "kelly"
    /\ RGt(kelly_call.odds, ROne)
    /\ RLt(kelly_call.probability1, kelly_call.probability2)
    /\ RLt(RZero, kelly_call.stake1)
    /\ RLt(kelly_call.stake1, kelly_call.stake2)
    /\ RLt(kelly_call.stake2, Hundredths(25))


----------------------------------------------------------------------------
(* MetaLearner                                                              *)

\* the names base models are registered under, spelled out so that
\* key.startswith(name) can be decided
AdapterNames == {"rf", "rf2"}

NameChars(name) ==
    CASE name = "rf" -> <<"r", "f">>
      [] name = "rf2" -> <<"r", "f", "2">>

\* how many classes a base model's predict_proba returns (proba.shape[1])
NumClasses == 2

\* the weights base models are registered with
Weights == {<<1, 1>>, <<2, 1>>}

MetaModelTypes == {"logistic_regression", "random_forest"}

\* self.scaler = StandardScaler(): not fitted yet.  A fitted scaler is known
\* by the number of columns it was fitted on and by whether the combiner
\* was fitted in the same train call.
UnfittedScaler == [fitted |-> FALSE, n_features |-> 0, with_model |-> FALSE]

\* self.model: the combiner, not fitted yet.  A fitted combiner is known by
\* the stacked-feature columns and the number of rows it was fitted on.
UnfittedModel == [fitted |-> FALSE, features |-> <<>>, rows |-> 0]

\* MetaLearner.__init__ (model_metadata, which only describes, is left out);
\* train_returned remembers whether some train call has returned normally
MetaLearnerInit(meta_model_type) ==
    [meta_model_type |-> meta_model_type,
     base_models |-> <<>>,
     model_weights |-> <<>>,
     scaler |-> UnfittedScaler,
     model |-> UnfittedModel,
     is_trained |-> FALSE,
     train_returned |-> FALSE]

Registered(m) == SeqRange(m.base_models)

\* self.base_models[name] = model; self.model_weights[name] = weight
\* registration that keeps the weight a registered name already has
AddKeepingWeight(m, name, weight) ==
    IF name \in { m.base_models[i] : i \in DOMAIN m.base_models } THEN m
    ELSE [m EXCEPT !.base_models = Append(@, name),
                   !.model_weights = [n \in DOMAIN @ \cup {name} |->
                                         IF n = name THEN weight ELSE @[n]]]

add_base_model(m, name, weight) ==
    [m EXCEPT !.base_models = IF name \in Registered(m) THEN @ ELSE Append(@, name),
              !.model_weights = [n \in Registered(m) \cup {name} |->
                                    IF n = name THEN weight ELSE m.model_weights[n]]]

RECURSIVE Without(_, _)
Without(order, name) ==
    IF order = <<>> THEN <<>>
    ELSE IF Head(order) = name THEN Without(Tail(order), name)
         ELSE <<Head(order)>> \o Without(Tail(order), name)

\* del self.base_models[name]; del self.model_weights[name]
remove_base_model(m, name) ==
    IF name \in Registered(m)
    THEN [m EXCEPT !.base_models = Without(@, name),
                   !.model_weights = [n \in Registered(m) \ {name} |-> m.model_weights[n]]]
    ELSE m

\* the text of a stacked-feature key: the adapter's name, then "_class_..."
KeyChars(entry) == NameChars(entry.name) \o <<"_class_">>

\* key.startswith(name)
StartsWith(entry, name) ==
    LET k == KeyChars(entry)
        c == NameChars(name)
    IN  Len(c) <= Len(k) /\ SubSeq(k, 1, Len(c)) = c

\* the fields f"{name}_class_{i}_proba", unweighted
ProbaEntries(name) ==
    [i \in 1 .. NumClasses |->
        [name |-> name, field |-> "proba", class_idx |-> i - 1, factor |-> ROne]]

PredEntry(name) == [name |-> name, field |-> "pred", class_idx |-> 0, factor |-> ROne]

\* self.model_weights.get(name, 1.0)
WeightOf(m, name) ==
    IF name \in DOMAIN m.model_weights THEN m.model_weights[name] ELSE ROne

\* predictions_dict[key] = predictions_dict[key] * weight for the keys that
\* start with name
ApplyWeight(dict, name, weight) ==
    [i \in DOMAIN dict |->
        IF StartsWith(dict[i], name)
        THEN [dict[i] EXCEPT !.factor = RMul(@, weight)]
        ELSE dict[i]]

\* the loop body without the is_trained test
AdapterStepUnchecked(m, adapters, how, dict, name) ==
    ApplyWeight(Append(dict \o ProbaEntries(name), PredEntry(name)), name, WeightOf(m, name))

\* one pass of the loop body for one base model; how[name] says whether its
\* predict_proba or its predict raises in this call
AdapterStep(m, adapters, how, dict, name) ==
    IF ~adapters[name].is_trained THEN dict
    ELSE IF how[name] = "proba_raises" THEN dict
    ELSE LET with_proba == dict \o ProbaEntries(name)
         IN  IF how[name] = "predict_raises" THEN with_proba
             ELSE ApplyWeight(Append(with_proba, PredEntry(name)), name, WeightOf(m, name))

RECURSIVE GenerateFrom(_, _, _, _, _)
GenerateFrom(m, adapters, how, dict, i) ==
    IF i > Len(m.base_models) THEN dict
    ELSE GenerateFrom(m, adapters, how,
                      AdapterStep(m, adapters, how, dict, m.base_models[i]), i + 1)

\* the columns of the DataFrame built from predictions_dict
_generate_base_predictions(m, adapters, how) == GenerateFrom(m, adapters, how, <<>>, 1)


\* Training batches, as the number of rows carrying each label 0, 1, 2.
Batches == { <<0, 0, 0>>, <<8, 0, 0>>, <<1, 8, 8>>, <<4, 4, 0>>, <<8, 8, 0>> }

Rows(batch) == batch[1] + batch[2] + batch[3]

Labels(batch) == { c \in 1 .. 3 : batch[c] > 0 }

\* a frame that is never found empty
IsEmptyFrameNever(dict, rows) == FALSE

\* base_predictions.empty: no column, or no row
IsEmptyFrame(dict, rows) == dict = <<>> \/ rows = 0

\* train_test_split(test_size=0.2, stratify=y): the test part is ceil(0.2 n)
TestRows(batch) == (Rows(batch) + 4) \div 5

TrainRows(batch) == Rows(batch) - TestRows(batch)

\* the stratified split refuses a class with a single member and a part
\* smaller than the number of classes
SplitRaises(batch) ==
    \/ \E c \in Labels(batch) : batch[c] < 2
    \/ TestRows(batch) < Cardinality(Labels(batch))
    \/ TrainRows(batch) < Cardinality(Labels(batch))

\* the most rows of label c the stratified training part can hold
TrainRowsOfLabel(batch, c) == ((TrainRows(batch) * batch[c]) \div Rows(batch)) + 1

\* self.model.fit: LogisticRegression needs two classes, the forest does not
FitRaises(m, batch) ==
    m.meta_model_type = "logistic_regression" /\ Cardinality(Labels(batch)) < 2

\* cross_val_score(cv=5): the stratified 5-fold split refuses a training
\* part in which every class has fewer than 5 members
CrossValRaises(batch) ==
    \A c \in Labels(batch) : TrainRowsOfLabel(batch, c) < 5

\* self.scaler.fit_transform(X_meta_train)
FitScaler(m, dict) ==
    [m EXCEPT !.scaler = [fitted |-> TRUE, n_features |-> Len(dict), with_model |-> FALSE]]

\* self.model.fit(X_meta_train_scaled, y_meta_train)
FitModel(m, dict, rows) ==
    [m EXCEPT !.model = [fitted |-> TRUE, features |-> dict, rows |-> rows],
              !.scaler.with_model = TRUE]

CallRaised(op, what, dict) ==
    [op |-> op, raised |-> TRUE, error |-> what, record |-> dict]

\* MetaLearner.train: the object after the call, and the call's outcome
train(m, adapters, how, batch) ==
    IF m.base_models = <<>>
    THEN [ml |-> m, call |-> CallRaised("train", "no_base_models", <<>>)]
    ELSE LET base_predictions == _generate_base_predictions(m, adapters, how)
             scaled == FitScaler(m, base_predictions)
             fitted == FitModel(scaled, base_predictions, TrainRows(batch))
             trained == [fitted EXCEPT !.is_trained = TRUE]
         IN  IF IsEmptyFrame(base_predictions, Rows(batch))
             THEN [ml |-> m,
                   call |-> CallRaised("train", "no_valid_predictions", base_predictions)]
             ELSE IF SplitRaises(batch)
             THEN [ml |-> m, call |-> CallRaised("train", "split", base_predictions)]
             ELSE IF FitRaises(m, batch)
             THEN [ml |-> scaled, call |-> CallRaised("train", "fit", base_predictions)]
             ELSE IF CrossValRaises(batch)
             THEN [ml |-> trained,
                   call |-> CallRaised("train", "cross_val_score", base_predictions)]
             ELSE [ml |-> [trained EXCEPT !.train_returned = TRUE],
                   call |-> [op |-> "train", raised |-> FALSE, record |-> base_predictions]]

\* self.scaler.transform: the fitted transform takes as many columns as it
\* was fitted on
TransformRaises(m, dict) == Len(dict) # m.scaler.n_features

\* MetaLearner.predict and MetaLearner.predict_proba share their steps
PredictWith(op, m, adapters, how) ==
    IF ~m.is_trained
    THEN [ml |-> m, call |-> [op |-> op, raised |-> TRUE, error |-> "not_trained"]]
    ELSE LET base_predictions == _generate_base_predictions(m, adapters, how)
         IN  IF IsEmptyFrame(base_predictions, 1)
             THEN [ml |-> m,
                   call |-> CallRaised(op, "no_valid_predictions", base_predictions)]
             ELSE IF TransformRaises(m, base_predictions)
             THEN [ml |-> m, call |-> CallRaised(op, "transform", base_predictions)]
             ELSE [ml |-> m,
                   call |-> [op |-> op, raised |-> FALSE, record |-> base_predictions,
                             distribution |-> [scaler |-> m.scaler, model |-> m.model]]]

predict(m, adapters, how) == PredictWith("predict", m, adapters, how)

predict_proba(m, adapters, how) == PredictWith("predict_proba", m, adapters, how)

\* MetaLearner.update_weights
update_weights(m, new_weights) ==
    LET w == [n \in DOMAIN m.model_weights |->
                 IF n \in DOMAIN new_weights THEN new_weights[n] ELSE m.model_weights[n]]
    IN  [m EXCEPT !.model_weights = w]


----------------------------------------------------------------------------
(* The MetaLearner as an object: base models get trained, registered,       *)
(* re-weighted and removed, and the meta-learner is trained and queried.    *)

\* what a base model does when the stacked features are built
Behaviours == {"ok", "proba_raises", "predict_raises"}

\* the behaviours met while the meta-learner is trained and queried
MetaBehaviours == {"ok", "proba_raises"}

\* one behaviour for every base model that will be asked
HowChoices(m, adapters) ==
    { how \in [AdapterNames -> MetaBehaviours] :
        \A n \in AdapterNames :
            (n \notin Registered(m) \/ ~adapters[n].is_trained) => how[n] = "ok" }

InitMeta ==
    /\ sport = "premier_league"
    /\ odds_data = OddsMissing("None")
    /\ odds_call = NoCall
    /\ kelly_call = KellyIdle
    /\ models = [n \in AdapterNames |-> [is_trained |-> FALSE]]
    /\ \E t \in MetaModelTypes : ml = MetaLearnerInit(t)
    /\ ml_call = NoCall
    /\ ensemble = EnsembleIdle
    /\ prediction = NoCall
    /\ threads = NoThreads
    /\ users = NoUsers
    /\ limiter = NoLimiter

MetaUnchanged == UNCHANGED <<users, limiter, threads, sport, odds_data, odds_call, kelly_call, ensemble, prediction>>

\* a base model's own train succeeds (BaseModel.is_trained = True)
BaseModelTrain ==
    /\ \E n \in AdapterNames :
         /\ ~models[n].is_trained
         /\ models' = [models EXCEPT ![n].is_trained = TRUE]
         /\ ml_call' = [op |-> "base_model_train", name |-> n]
    /\ UNCHANGED ml
    /\ MetaUnchanged

AddBaseModel ==
    /\ \E n \in AdapterNames, w \in Weights :
         /\ ml' = add_base_model(ml, n, w)
         /\ ml_call' = [op |-> "add_base_model", name |-> n, weight |-> w]
    /\ UNCHANGED models
    /\ MetaUnchanged

RemoveBaseModel ==
    /\ \E n \in AdapterNames :
         /\ ml' = remove_base_model(ml, n)
         /\ ml_call' = [op |-> "remove_base_model", name |-> n]
    /\ UNCHANGED models
    /\ MetaUnchanged

UpdateWeights ==
    /\ \E n \in AdapterNames, w \in Weights :
         /\ ml' = update_weights(ml, [x \in {n} |-> w])
         /\ ml_call' = [op |-> "update_weights", name |-> n]
    /\ UNCHANGED models
    /\ MetaUnchanged

\* a call's outcome, with how the base models behaved in it
Outcome(res, how) == res.call @@ [how |-> how]

Train ==
    /\ \E how \in HowChoices(ml, models), batch \in Batches :
         LET res == train(ml, models, how, batch)
         IN  /\ ml' = res.ml
             /\ ml_call' = Outcome(res, how) @@ [batch |-> batch]
    /\ UNCHANGED models
    /\ MetaUnchanged

Predict ==
    /\ \E how \in HowChoices(ml, models) :
         LET res == predict(ml, models, how)
         IN  /\ ml' = res.ml
             /\ ml_call' = Outcome(res, how)
    /\ UNCHANGED models
    /\ MetaUnchanged

PredictProba ==
    /\ \E how \in HowChoices(ml, models) :
         LET res == predict_proba(ml, models, how)
         IN  /\ ml' = res.ml
             /\ ml_call' = Outcome(res, how)
    /\ UNCHANGED models
    /\ MetaUnchanged

NextMeta ==
    \/ BaseModelTrain
    \/ AddBaseModel
    \/ RemoveBaseModel
    \/ UpdateWeights
    \/ Train
    \/ Predict
    \/ PredictProba

SpecMeta == InitMeta /\ [][NextMeta]_vars


----------------------------------------------------------------------------
(* The stacked-feature record on its own: for a registry in any order, any  *)
(* weights and any readiness of the base models, _generate_base_predictions *)
(* is called with every way the base models may behave.                     *)

\* the registries add_base_model can build: distinct names in any order
Registries ==
    { <<>> } \cup { <<n>> : n \in AdapterNames }
    \cup { <<a, b>> : <<a, b>> \in { p \in AdapterNames \X AdapterNames : p[1] # p[2] } }

\* an untrained meta-learner holding registry order with the weights w
MetaLearnerWith(meta_model_type, order, w) ==
    [MetaLearnerInit(meta_model_type) EXCEPT
        !.base_models = order,
        !.model_weights = [n \in SeqRange(order) |-> w[n]]]

\* one behaviour for every base model, any of the three for those asked
StackHowChoices(m, adapters) ==
    { how \in [AdapterNames -> Behaviours] :
        \A n \in AdapterNames :
            (n \notin Registered(m) \/ ~adapters[n].is_trained) => how[n] = "ok" }

InitStack ==
    /\ sport = "premier_league"
    /\ odds_data = OddsMissing("None")
    /\ odds_call = NoCall
    /\ kelly_call = KellyIdle
    /\ models \in [AdapterNames -> { [is_trained |-> b] : b \in BOOLEAN }]
    /\ \E t \in MetaModelTypes, order \in Registries, w \in [AdapterNames -> Weights] :
         ml = MetaLearnerWith(t, order, w)
    /\ ml_call = NoCall
    /\ ensemble = EnsembleIdle
    /\ prediction = NoCall
    /\ threads = NoThreads
    /\ users = NoUsers
    /\ limiter = NoLimiter

GenerateBasePredictions ==
    /\ \E how \in StackHowChoices(ml, models) :
         ml_call' = [op |-> "_generate_base_predictions",
                     how |-> how,
                     record |-> _generate_base_predictions(ml, models, how)]
    /\ UNCHANGED <<models, ml>>
    /\ MetaUnchanged

NextStack == GenerateBasePredictions

SpecStack == InitStack /\ [][NextStack]_vars


----------------------------------------------------------------------------
(* Properties of the meta-learner and of its stacked-feature record.        *)

MetaQueries == {"predict", "predict_proba"}

\* no registered base model is ready, or none is registered
NoneReady(m, adapters) == \A n \in Registered(m) : ~adapters[n].is_trained

\* C7: as long as no train call has returned normally, predict and
\* predict_proba raise the not-trained error and give no distribution.
C7_NeverTrainedQueryRaises ==
    (ml_call.op \in MetaQueries /\ ~ml.train_returned)
        => /\ ml_call.raised
           /\ ml_call.error = "not_trained"
           /\ "distribution" \notin DOMAIN ml_call

\* C8: when no registered base model is ready (or none is registered), the
\* stacked-feature record is empty and train, predict and predict_proba
\* raise instead of giving a distribution.
C8_NoReadyAdapterRaises ==
    (ml_call.op \in MetaQueries \cup {"train"} /\ NoneReady(ml, models))
        => /\ ml_call.raised
           /\ ml_call.error \in {"no_base_models", "no_valid_predictions", "not_trained"}
           /\ "record" \in DOMAIN ml_call => ml_call.record = <<>>
           /\ "distribution" \notin DOMAIN ml_call

\* C8 witness: a trained meta-learner whose registry now holds only base
\* models that are not ready was asked for a distribution and raised on the
\* empty record.
C8_Witness ==
    /\ ml_call.op = "predict_proba"
    /\ ml.is_trained
    /\ ml.base_models # <<>>
    /\ NoneReady(ml, models)
    /\ ml_call.raised
    /\ ml_call.error = "no_valid_predictions"
    /\ ml_call.record = <<>>

\* C9: train raises whenever the batch is empty or its labels hold fewer
\* than two distinct classes, whichever the meta-model type.
C9_DegenerateBatchRejected ==
    (ml_call.op = "train"
     /\ (Rows(ml_call.batch) = 0 \/ Cardinality(Labels(ml_call.batch)) < 2))
        => ml_call.raised

\* C10: the record built in a call holds no key of a base model that raised
\* in that call, and the base model stays registered.
C10_FailedAdapterLeavesNoKey ==
    ml_call.op = "_generate_base_predictions"
        => \A n \in AdapterNames :
              ml_call.how[n] # "ok"
                  => /\ \A i \in DOMAIN ml_call.record : ml_call.record[i].name # n
                     /\ n \in Registered(ml)


----------------------------------------------------------------------------
(* EnsemblePredictor                                                        *)

\* Python's None, for a value that is otherwise a non-empty list; a class
\* index x that may be None is carried as <<x>>
None == <<>>

\* the base models in the order train_ensemble and predict walk them
EnsembleModels == <<"rf", "rf2">>

\* EnsemblePredictor.__init__: MetaLearner(sport) takes the default type
\* train_calls counts the train_ensemble calls made so far
EnsembleInit == [is_trained |-> FALSE, train_calls |-> 0]

EnsembleMetaInit == MetaLearnerInit("logistic_regression")

RECURSIVE TrainBaseModels(_, _, _)
\* the training loops: a base model whose train returns becomes trained and
\* is registered with the default weight, one whose train raises is skipped
TrainBaseModels(state, trains_ok, i) ==
    IF i > Len(EnsembleModels) THEN state
    ELSE LET name == EnsembleModels[i]
         IN  IF name \in trains_ok
             THEN TrainBaseModels(
                      [models |-> [state.models EXCEPT ![name].is_trained = TRUE],
                       ml |-> add_base_model(state.ml, name, ROne)],
                      trains_ok, i + 1)
             ELSE TrainBaseModels(state, trains_ok, i + 1)

\* EnsemblePredictor.train_ensemble; how is looked up only once the base
\* models have been trained
train_ensemble(e, adapters, m, trains_ok, how, batch) ==
    IF Rows(batch) = 0
    THEN [ensemble |-> [e EXCEPT !.train_calls = @ + 1], models |-> adapters, ml |-> m,
          call |-> [op |-> "train_ensemble", raised |-> TRUE, error |-> "no_training_data"]]
    ELSE LET based == TrainBaseModels([models |-> adapters, ml |-> m], trains_ok, 1)
             meta == train(based.ml, based.models, how, batch)
         IN  [ensemble |-> [e EXCEPT !.is_trained = TRUE, !.train_calls = @ + 1],
              models |-> based.models,
              ml |-> meta.ml,
              call |-> [op |-> "train_ensemble", raised |-> FALSE,
                        num_models_trained |->
                            Cardinality(trains_ok) + IF meta.call.raised THEN 0 ELSE 1]]

\* the last index (from 0) holding the largest value
ArgMaxLast(values) ==
    CHOOSE i \in 0 .. Len(values) - 1 :
        \A j \in 0 .. Len(values) - 1 :
            IF j > i THEN RLt(values[j + 1], values[i + 1])
            ELSE RLe(values[j + 1], values[i + 1])

\* np.argmax, and max(set(...), key=...count) over small class indices: the
\* first index (from 0) holding the largest value
ArgMax(values) ==
    CHOOSE i \in 0 .. Len(values) - 1 :
        /\ \A j \in 0 .. Len(values) - 1 : RLe(values[j + 1], values[i + 1])
        /\ \A j \in 0 .. i - 1 : RLt(values[j + 1], values[i + 1])

RECURSIVE MaxOf(_)
MaxOf(values) ==
    IF Len(values) = 1 THEN values[1] ELSE RMax(values[1], MaxOf(Tail(values)))

\* np.mean(valid_probabilities, axis=0)
MeanByClass(dists) ==
    [c \in DOMAIN dists[1] |-> Mean([k \in DOMAIN dists |-> dists[k][c]])]

\* np.var(prob_array, axis=0)
VarianceByClass(dists) ==
    [c \in DOMAIN dists[1] |-> Variance([k \in DOMAIN dists |-> dists[k][c]])]

\* the scorer without the agreement factor
ConfidencePeakOnly(valid_probs, ensemble_probabilities) ==
    IF ensemble_probabilities = None THEN RZero ELSE MaxOf(ensemble_probabilities)

\* EnsemblePredictor._calculate_confidence
_calculate_confidence(valid_probs, ensemble_probabilities) ==
    IF ensemble_probabilities = None THEN RZero
    ELSE LET max_prob == MaxOf(ensemble_probabilities)
             confidence ==
                 IF Len(valid_probs) > 1
                 THEN LET avg_variance == Mean(VarianceByClass(valid_probs))
                          agreement_factor == RDiv(ROne, RAdd(ROne, avg_variance))
                      IN  RMul(max_prob, agreement_factor)
                 ELSE max_prob
         IN  RMin(confidence, ROne)

RECURSIVE ValidProbabilities(_, _, _, _)
\* the probabilities of the base models that are trained and did not raise
ValidProbabilities(adapters, how, outs, i) ==
    IF i > Len(EnsembleModels) THEN <<>>
    ELSE LET name == EnsembleModels[i]
             rest == ValidProbabilities(adapters, how, outs, i + 1)
         IN  IF adapters[name].is_trained /\ how[name] = "ok"
             THEN <<outs[name]>> \o rest
             ELSE rest

\* how many of the votes are for class c
Votes(valid_probs, c) ==
    <<Cardinality({ k \in DOMAIN valid_probs : ArgMax(valid_probs[k]) = c }), 1>>

\* EnsemblePredictor.predict; outs are the base models' distributions and
\* meta_out is what the fitted combiner returns
EnsemblePredict(e, adapters, m, how, outs, meta_out, features_empty) ==
    IF ~e.is_trained THEN Raised("ensemble_not_trained")
    ELSE IF features_empty THEN Raised("no_features")
    ELSE LET valid_probs == ValidProbabilities(adapters, how, outs, 1)
             meta_ok == /\ m.is_trained
                        /\ ~predict(m, adapters, how).call.raised
                        /\ ~predict_proba(m, adapters, how).call.raised
             meta_prediction == IF meta_ok THEN <<ArgMax(meta_out)>> ELSE None
             meta_probabilities == IF meta_ok THEN meta_out ELSE None
             voted == <<ArgMax([c \in DOMAIN valid_probs[1] |-> Votes(valid_probs, c - 1)])>>
             ensemble_prediction ==
                 IF meta_prediction = None /\ valid_probs # <<>> THEN voted
                 ELSE meta_prediction
             ensemble_probabilities ==
                 IF meta_prediction = None /\ valid_probs # <<>>
                 THEN MeanByClass(valid_probs)
                 ELSE meta_probabilities
         IN  [raised |-> FALSE,
              ensemble_prediction |-> ensemble_prediction,
              ensemble_probabilities |-> ensemble_probabilities,
              confidence |-> _calculate_confidence(valid_probs, ensemble_probabilities),
              individual_probabilities |-> valid_probs,
              meta_prediction |-> meta_prediction,
              meta_probabilities |-> meta_probabilities]


----------------------------------------------------------------------------
(* MatchAnalyzer, TeamAnalyzer and SportsPredictor                          *)

\* what MatchAnalyzer finds in the match data: the head-to-head matches,
\* the recent matches of each side, and whether at least two of the three
\* advantages agree with the first
MatchDataChoices ==
    { [h2h_matches |-> 0, home_form_matches |-> 0, away_form_matches |-> 0, agree |-> TRUE],
      [h2h_matches |-> 5, home_form_matches |-> 5, away_form_matches |-> 3, agree |-> FALSE] }

_calculate_analysis_confidence(analysis) ==
    LET by_h2h == IF analysis.h2h_matches >= 5 THEN Hundredths(80)
                  ELSE IF analysis.h2h_matches >= 2 THEN Hundredths(60)
                  ELSE Hundredths(30)
        by_form == IF analysis.home_form_matches >= 5 /\ analysis.away_form_matches >= 5
                   THEN Hundredths(80)
                   ELSE IF analysis.home_form_matches >= 3 /\ analysis.away_form_matches >= 3
                   THEN Hundredths(60)
                   ELSE Hundredths(40)
        by_agreement == IF analysis.agree THEN Hundredths(70) ELSE Hundredths(50)
    IN  Mean(<<by_h2h, by_form, by_agreement>>)

\* MatchAnalyzer.analyze_match, as far as the predictor reads it
analyze_match(match_data) == [confidence |-> _calculate_analysis_confidence(match_data)]

\* TeamAnalyzer.analyze_team
analyze_team == [overall_rating |-> Hundredths(70), confidence |-> Hundredths(60)]

\* TeamAnalyzer.compare_teams
compare_teams(home_analysis, away_analysis) ==
    LET home_rating == home_analysis.overall_rating
        away_rating == away_analysis.overall_rating
    IN  [home_advantage |-> RMax(RZero, RAdd(RSub(home_rating, away_rating), Hundredths(10))),
         away_advantage |-> RMax(RZero, RSub(away_rating, home_rating)),
         rating_difference |-> RSub(home_rating, away_rating)]

\* SportsPredictor._analyze_teams: the result carries no 'confidence' entry
_analyze_teams ==
    [home_team |-> analyze_team,
     away_team |-> analyze_team,
     comparison |-> compare_teams(analyze_team, analyze_team)]

labels == <<"home_win", "draw", "away_win">>

\* the decision list with its second rule tried first
AssessRiskMediumFirst(probabilities, confidence) ==
    LET max_prob == MaxOf(probabilities)
    IN  IF RGt(confidence, Hundredths(60)) /\ RGt(max_prob, Hundredths(50))
        THEN "Medium Risk"
        ELSE IF RGt(confidence, Hundredths(80)) /\ RGt(max_prob, Hundredths(60))
        THEN "Low Risk"
        ELSE "High Risk"

\* SportsPredictor._assess_risk
_assess_risk(probabilities, confidence) ==
    LET max_prob == MaxOf(probabilities)
        min_prob == RSub(RZero, MaxOf([i \in DOMAIN probabilities |->
                                          RSub(RZero, probabilities[i])]))
        prob_spread == RSub(max_prob, min_prob)
    IN  IF RGt(confidence, Hundredths(80)) /\ RGt(max_prob, Hundredths(60))
        THEN "Low Risk"
        ELSE IF RGt(confidence, Hundredths(60)) /\ RGt(max_prob, Hundredths(50))
        THEN "Medium Risk"
        ELSE IF RGt(confidence, Hundredths(40)) /\ RGt(prob_spread, Hundredths(20))
        THEN "Medium-High Risk"
        ELSE "High Risk"

\* x.get('value', 0): the value-bet entries carry no 'value' entry
ValueOf(value_bet) ==
    IF "value" \in DOMAIN value_bet THEN value_bet.value ELSE RZero

_generate_betting_recommendation(probabilities, odds_analysis) ==
    LET value_bets == odds_analysis.value_bets
    IN  IF value_bets = <<>>
        THEN [recommended |-> FALSE, reason |-> "No value bets identified"]
        ELSE LET best_value ==
                     value_bets[CHOOSE i \in DOMAIN value_bets :
                         /\ \A j \in DOMAIN value_bets :
                               RLe(ValueOf(value_bets[j]), ValueOf(value_bets[i]))
                         /\ \A j \in 1 .. i - 1 :
                               RLt(ValueOf(value_bets[j]), ValueOf(value_bets[i]))]
             IN  IF RGt(ValueOf(best_value), Hundredths(5))
                 THEN [recommended |-> TRUE,
                       bet_type |-> best_value.outcome,
                       expected_value |-> ValueOf(best_value),
                       bookmaker |-> best_value.bookmaker]
                 ELSE [recommended |-> FALSE,
                       reason |-> "Insufficient value in available odds"]

\* the blender without its last step
NotNormalized(values) == values

\* final_probs / np.sum(final_probs)
Normalized(values) == [i \in DOMAIN values |-> RDiv(values[i], RSum(values))]

\* the boosts with a signal of 0.6 already counted as strong
BoostedFromSixty(scaled, team_comparison) ==
    IF RLe(Hundredths(60), team_comparison.home_advantage)
    THEN [scaled EXCEPT ![1] = RAdd(@, Hundredths(5))]
    ELSE IF RLe(Hundredths(60), team_comparison.away_advantage)
    THEN [scaled EXCEPT ![3] = RAdd(@, Hundredths(5))]
    ELSE scaled

\* the boost of the home slot, or else of the away slot
Boosted(scaled, team_comparison) ==
    IF RGt(team_comparison.home_advantage, Hundredths(60))
    THEN [scaled EXCEPT ![1] = RAdd(@, Hundredths(5))]
    ELSE IF RGt(team_comparison.away_advantage, Hundredths(60))
    THEN [scaled EXCEPT ![3] = RAdd(@, Hundredths(5))]
    ELSE scaled

\* SportsPredictor._generate_final_recommendation; np.array(ml_probs) * 0.6
\* raises TypeError when ml_probs is None
_generate_final_recommendation(ml_prediction, match_analysis, team_analysis, odds_analysis) ==
    LET ml_probs == ml_prediction.ensemble_probabilities
        ml_confidence == ml_prediction.confidence
        team_comparison == team_analysis.comparison
        scaled == [i \in DOMAIN ml_probs |-> RMul(ml_probs[i], Hundredths(60))]
        boosted == Boosted(scaled, team_comparison)
        final_probs == Normalized(boosted)
        team_confidence == IF "confidence" \in DOMAIN team_analysis
                           THEN team_analysis.confidence ELSE Hundredths(50)
        overall_confidence ==
            Mean(<<ml_confidence, match_analysis.confidence, team_confidence,
                   odds_analysis.confidence>>)
    IN  IF ml_probs = None THEN Raised("TypeError")
        ELSE [raised |-> FALSE,
              recommendation |-> labels[ArgMax(final_probs) + 1],
              probabilities |-> final_probs,
              confidence |-> overall_confidence,
              risk_assessment |-> _assess_risk(final_probs, overall_confidence),
              betting_recommendation |->
                  _generate_betting_recommendation(final_probs, odds_analysis)]

\* SportsPredictor.predict_match: an exception of any step ends the call
predict_match(e, adapters, m, how, outs, meta_out, features_empty, match_data, od) ==
    IF ~e.is_trained THEN Raised("ensemble_not_trained")
    ELSE LET ml_prediction == EnsemblePredict(e, adapters, m, how, outs, meta_out,
                                              features_empty)
             match_analysis == analyze_match(match_data)
             team_analysis == _analyze_teams
             odds_analysis == analyze_match_odds(od)
             final_recommendation ==
                 _generate_final_recommendation(ml_prediction, match_analysis,
                                                team_analysis, odds_analysis)
         IN  IF ml_prediction.raised THEN ml_prediction
             ELSE IF odds_analysis.raised THEN odds_analysis
             ELSE IF final_recommendation.raised THEN final_recommendation
             ELSE [raised |-> FALSE,
                   ml_prediction |-> ml_prediction,
                   match_analysis |-> match_analysis,
                   odds_analysis |-> odds_analysis,
                   final_recommendation |-> final_recommendation]


----------------------------------------------------------------------------
(* The predictor as an object: the ensemble is trained and a match is       *)
(* predicted from what the training left behind, or without any training.   *)

\* the slot of one bookmaker's quote for one market outcome
SlotOf(bookmaker, market, outcome) ==
    CHOOSE s \in Slots : SlotBookmaker(s) = bookmaker /\ SlotKey(s) = <<market, outcome>>

\* BookA quotes home 4.00, away 4.00 and draw 2.00
ValueQuotes ==
    (SlotOf("BookA", "h2h", "home") :> 400) @@ (SlotOf("BookA", "h2h", "away") :> 400)
    @@ (SlotOf("BookA", "h2h", "draw") :> 200)

\* BookA quotes home 2.00 and an away outcome without a price, read as 0
UnpricedQuotes ==
    (SlotOf("BookA", "h2h", "home") :> 200) @@ (SlotOf("BookA", "h2h", "away") :> 0)

\* the odds a predicted match may carry
PredictOdds == { OddsMissing("None"), OddsWith(ValueQuotes), OddsWith(UnpricedQuotes) }

\* the distributions (home, draw, away) a base model or the combiner returns
Distributions ==
    { <<Hundredths(60), Hundredths(20), Hundredths(20)>>,
      <<Hundredths(20), Hundredths(30), Hundredths(50)>>,
      <<Hundredths(10), Hundredths(10), Hundredths(80)>>,
      <<Hundredths(20), Hundredths(40), Hundredths(40)>> }

InitPredict ==
    /\ sport = "premier_league"
    /\ odds_data \in PredictOdds
    /\ odds_call = NoCall
    /\ kelly_call = KellyIdle
    /\ models = [n \in AdapterNames |-> [is_trained |-> FALSE]]
    /\ ml = EnsembleMetaInit
    /\ ml_call = NoCall
    /\ ensemble = EnsembleInit
    /\ prediction = NoCall
    /\ threads = NoThreads
    /\ users = NoUsers
    /\ limiter = NoLimiter

\* how many times the ensemble is trained at most
MaxTrainCalls == 1

TrainEnsemble ==
    /\ ensemble.train_calls < MaxTrainCalls
    /\ \E trains_ok \in SUBSET AdapterNames, batch \in Batches :
         \E how \in StackHowChoices(TrainBaseModels([models |-> models, ml |-> ml],
                                                     trains_ok, 1).ml,
                                     TrainBaseModels([models |-> models, ml |-> ml],
                                                     trains_ok, 1).models) :
         LET res == train_ensemble(ensemble, models, ml, trains_ok, how, batch)
         IN  /\ ensemble' = res.ensemble
             /\ models' = res.models
             /\ ml' = res.ml
             /\ ml_call' = res.call
    /\ UNCHANGED <<users, limiter, threads, sport, odds_data, odds_call, kelly_call, prediction>>

\* predict_match changes nothing the next call reads, so one call is followed
PredictMatch ==
    /\ prediction = NoCall
    /\ \E how \in StackHowChoices(ml, models), outs \in [AdapterNames -> Distributions],
          meta_out \in Distributions, features_empty \in BOOLEAN,
          match_data \in MatchDataChoices :
         prediction' = [op |-> "predict_match",
                        result |-> predict_match(ensemble, models, ml, how, outs, meta_out,
                                                 features_empty, match_data, odds_data)]
    /\ UNCHANGED <<users, limiter, threads, sport, odds_data, odds_call, kelly_call, models, ml, ml_call, ensemble>>

NextPredict == TrainEnsemble \/ PredictMatch

SpecPredict == InitPredict /\ [][NextPredict]_vars


----------------------------------------------------------------------------
(* Properties of the merged decision.                                       *)

PredictionMade == prediction.op = "predict_match"

\* the call was refused before the ML layer was asked for a distribution
RefusedEarly ==
    /\ prediction.result.raised
    /\ prediction.result.error \in {"ensemble_not_trained", "no_features"}

\* C1: a trained ensemble's match prediction carries a three-outcome
\* distribution and a confidence, whichever base models and meta-learner
\* failed to give output; it does not fail for want of an ML distribution.
C1_DecisionAlwaysCarriesDistribution ==
    (PredictionMade /\ ~RefusedEarly /\ ~analyze_match_odds(odds_data).raised)
        => /\ ~prediction.result.raised
           /\ Len(prediction.result.final_recommendation.probabilities) = Len(labels)
           /\ "confidence" \in DOMAIN prediction.result.final_recommendation

\* C2: when analyze_match_odds raises, predict_match still returns the
\* decision, with empty value bets and arbitrage opportunities.
C2_OddsFailureDoesNotBlockDecision ==
    (PredictionMade /\ ~RefusedEarly /\ analyze_match_odds(odds_data).raised)
        => /\ ~prediction.result.raised
           /\ prediction.result.odds_analysis.value_bets = <<>>
           /\ prediction.result.odds_analysis.arbitrage_opportunities = <<>>

\* the place of an outcome in the (home, draw, away) distribution
OutcomeIndex(outcome) ==
    CASE outcome = "home" -> 1
      [] outcome = "draw" -> 2
      [] outcome = "away" -> 3

\* C6: every value bet of a decision was computed against the ensemble's
\* distribution for the match: its model_probability is the ensemble's
\* probability of that outcome.
C6_ValueBetsUseEnsembleDistribution ==
    (PredictionMade /\ ~prediction.result.raised)
        => LET value_bets == prediction.result.odds_analysis.value_bets
               ml_probs == prediction.result.ml_prediction.ensemble_probabilities
           IN  \A i \in DOMAIN value_bets :
                  value_bets[i].model_probability
                      = ml_probs[OutcomeIndex(value_bets[i].outcome)]


----------------------------------------------------------------------------
(* Properties of the stacked-feature record, over registry orders, weights  *)
(* and readiness.                                                           *)

RecordBuilt == ml_call.op = "_generate_base_predictions"

\* the names under which the record holds at least one key
Contributors(record) == { record[i].name : i \in DOMAIN record }

\* C11: whatever the registry holds, the record is built (no error comes of
\* a base model that is not ready) and holds keys only of registered base
\* models that are ready at the time of the call.
C11_RecordHoldsOnlyReadyAdapters ==
    RecordBuilt
        => /\ "record" \in DOMAIN ml_call
           /\ \A n \in Contributors(ml_call.record) :
                 n \in Registered(ml) /\ models[n].is_trained

\* C11 witness: of two registered base models one is ready and one is not,
\* and the record holds the keys of the ready one alone.
C11_Witness ==
    /\ RecordBuilt
    /\ Registered(ml) = AdapterNames
    /\ \E n \in AdapterNames :
         /\ models[n].is_trained
         /\ \A other \in AdapterNames \ {n} : ~models[other].is_trained
         /\ Contributors(ml_call.record) = {n}

\* C12: every field of a base model that did not raise carries that base
\* model's raw output times its own registered weight, once.
C12_FieldsWeightedOnceByOwnWeight ==
    RecordBuilt
        => \A i \in DOMAIN ml_call.record :
              ml_call.how[ml_call.record[i].name] = "ok"
                  => ml_call.record[i].factor = WeightOf(ml, ml_call.record[i].name)


----------------------------------------------------------------------------
(* Two threads on one MetaLearner.  The class takes no lock and changes its *)
(* fields in place, so the statements of a train or add_base_model call in  *)
(* one thread interleave with the statements of a predict_proba call in     *)
(* another.  One update and one inference run, from a trained meta-learner. *)

AllReady == [n \in AdapterNames |-> [is_trained |-> TRUE]]

AllOk == [n \in AdapterNames |-> "ok"]

\* the meta-learners left by a train call that returned, all base models ready
TrainedMetaLearners ==
    { train(MetaLearnerWith(t, order, w), AllReady, AllOk, <<8, 8, 0>>).ml :
        t \in MetaModelTypes, order \in Registries \ {<<>>},
        w \in [AdapterNames -> Weights] }

\* the updating thread before its call; scaler_fitted and model_fitted
\* remember which statements of train it has executed
IdleTrainer ==
    [pc |-> "idle", op |-> "none", how |-> AllOk, batch |-> <<0, 0, 0>>,
     base_predictions |-> <<>>, name |-> "none", weight |-> ROne,
     scaler_fitted |-> FALSE, model_fitted |-> FALSE, raised |-> FALSE, error |-> "none"]

\* the inferring thread before its call; scaler_version and model_version
\* remember whether the scaler and the combiner it used were the ones of
\* the running update ("new") or the ones before it ("old"), weight_pending
\* whether it read the registry between the two writes of add_base_model,
\* the adapter stored and its weight not yet
IdleInference ==
    [pc |-> "idle", how |-> AllOk, record |-> <<>>, scaler_version |-> "none",
     model_version |-> "none", weight_pending |-> FALSE, raised |-> FALSE,
     error |-> "none"]

InitConcurrent ==
    /\ sport = "premier_league"
    /\ odds_data = OddsMissing("None")
    /\ odds_call = NoCall
    /\ kelly_call = KellyIdle
    /\ models = AllReady
    /\ ml \in TrainedMetaLearners
    /\ ml_call = NoCall
    /\ ensemble = EnsembleIdle
    /\ prediction = NoCall
    /\ threads = [trainer |-> IdleTrainer, inference |-> IdleInference]
    /\ users = NoUsers
    /\ limiter = NoLimiter

ConcurrentUnchanged ==
    UNCHANGED <<users, limiter, sport, odds_data, odds_call, kelly_call, models, ml_call, ensemble,
                prediction>>

TrainerAt(pc, op) == threads.trainer.pc = pc /\ threads.trainer.op = op

TrainerRaises(what) ==
    threads' = [threads EXCEPT !.trainer.pc = "done", !.trainer.raised = TRUE,
                               !.trainer.error = what]

\* train, up to the split of the stacked features
TrainEnter ==
    /\ threads.trainer.pc = "idle"
    /\ \E how \in HowChoices(ml, models), batch \in Batches :
         LET base_predictions == _generate_base_predictions(ml, models, how)
             entered == [threads EXCEPT !.trainer.op = "train", !.trainer.how = how,
                                        !.trainer.batch = batch,
                                        !.trainer.base_predictions = base_predictions]
         IN  threads' =
                 IF ml.base_models = <<>>
                 THEN [entered EXCEPT !.trainer.pc = "done", !.trainer.raised = TRUE,
                                      !.trainer.error = "no_base_models"]
                 ELSE IF IsEmptyFrame(base_predictions, Rows(batch))
                 THEN [entered EXCEPT !.trainer.pc = "done", !.trainer.raised = TRUE,
                                      !.trainer.error = "no_valid_predictions"]
                 ELSE IF SplitRaises(batch)
                 THEN [entered EXCEPT !.trainer.pc = "done", !.trainer.raised = TRUE,
                                      !.trainer.error = "split"]
                 ELSE [entered EXCEPT !.trainer.pc = "fit_scaler"]
    /\ UNCHANGED ml
    /\ ConcurrentUnchanged

\* self.scaler.fit_transform(X_meta_train)
TrainFitScaler ==
    /\ TrainerAt("fit_scaler", "train")
    /\ ml' = FitScaler(ml, threads.trainer.base_predictions)
    /\ threads' = [threads EXCEPT !.trainer.pc = "fit_model", !.trainer.scaler_fitted = TRUE]
    /\ ConcurrentUnchanged

\* self.model.fit(X_meta_train_scaled, y_meta_train)
TrainFitModel ==
    /\ TrainerAt("fit_model", "train")
    /\ IF FitRaises(ml, threads.trainer.batch)
       THEN TrainerRaises("fit") /\ UNCHANGED ml
       ELSE /\ ml' = FitModel(ml, threads.trainer.base_predictions,
                              TrainRows(threads.trainer.batch))
            /\ threads' = [threads EXCEPT !.trainer.pc = "mark_trained",
                                          !.trainer.model_fitted = TRUE]
    /\ ConcurrentUnchanged

\* self.is_trained = True
TrainMarkTrained ==
    /\ TrainerAt("mark_trained", "train")
    /\ ml' = [ml EXCEPT !.is_trained = TRUE]
    /\ threads' = [threads EXCEPT !.trainer.pc = "validate"]
    /\ ConcurrentUnchanged

\* the validation metrics, then the return
TrainValidate ==
    /\ TrainerAt("validate", "train")
    /\ IF CrossValRaises(threads.trainer.batch)
       THEN TrainerRaises("cross_val_score") /\ UNCHANGED ml
       ELSE /\ ml' = [ml EXCEPT !.train_returned = TRUE]
            /\ threads' = [threads EXCEPT !.trainer.pc = "done"]
    /\ ConcurrentUnchanged

\* add_base_model: self.base_models[name] = model
AddEnter ==
    /\ threads.trainer.pc = "idle"
    /\ \E n \in AdapterNames, w \in Weights :
         /\ ml' = [ml EXCEPT !.base_models =
                       IF n \in Registered(ml) THEN @ ELSE Append(@, n)]
         /\ threads' = [threads EXCEPT !.trainer.pc = "set_weight",
                                       !.trainer.op = "add_base_model",
                                       !.trainer.name = n, !.trainer.weight = w]
    /\ ConcurrentUnchanged

\* add_base_model: self.model_weights[name] = weight
AddSetWeight ==
    /\ TrainerAt("set_weight", "add_base_model")
    /\ ml' = add_base_model(ml, threads.trainer.name, threads.trainer.weight)
    /\ threads' = [threads EXCEPT !.trainer.pc = "done"]
    /\ ConcurrentUnchanged

InferenceRaises(what) ==
    threads' = [threads EXCEPT !.inference.pc = "done", !.inference.raised = TRUE,
                               !.inference.error = what]

\* predict_proba: if not self.is_trained: raise
InferEnter ==
    /\ threads.inference.pc = "idle"
    /\ IF ~ml.is_trained
       THEN InferenceRaises("not_trained")
       ELSE threads' = [threads EXCEPT !.inference.pc = "generate"]
    /\ UNCHANGED ml
    /\ ConcurrentUnchanged

\* predict_proba: base_predictions = self._generate_base_predictions(X)
InferGenerate ==
    /\ threads.inference.pc = "generate"
    /\ \E how \in HowChoices(ml, models) :
         LET base_predictions == _generate_base_predictions(ml, models, how)
         IN  IF IsEmptyFrame(base_predictions, 1)
             THEN InferenceRaises("no_valid_predictions")
             ELSE threads' = [threads EXCEPT
                                 !.inference.pc = "transform",
                                 !.inference.how = how,
                                 !.inference.record = base_predictions,
                                 !.inference.weight_pending =
                                     /\ TrainerAt("set_weight", "add_base_model")
                                     /\ WeightOf(ml, threads.trainer.name)
                                            # threads.trainer.weight]
    /\ UNCHANGED ml
    /\ ConcurrentUnchanged

\* predict_proba: X_meta_scaled = self.scaler.transform(base_predictions)
InferTransform ==
    /\ threads.inference.pc = "transform"
    /\ IF TransformRaises(ml, threads.inference.record)
       THEN InferenceRaises("transform")
       ELSE threads' = [threads EXCEPT
                           !.inference.pc = "combine",
                           !.inference.scaler_version =
                               IF threads.trainer.scaler_fitted THEN "new" ELSE "old"]
    /\ UNCHANGED ml
    /\ ConcurrentUnchanged

\* the combiner refuses a row whose columns are not those it was fitted on
CombineRaises(m, dict) == Len(dict) # Len(m.model.features)

\* predict_proba: return self.model.predict_proba(X_meta_scaled)
InferCombine ==
    /\ threads.inference.pc = "combine"
    /\ IF CombineRaises(ml, threads.inference.record)
       THEN InferenceRaises("predict_proba")
       ELSE threads' = [threads EXCEPT
                           !.inference.pc = "done",
                           !.inference.model_version =
                               IF threads.trainer.model_fitted THEN "new" ELSE "old"]
    /\ UNCHANGED ml
    /\ ConcurrentUnchanged

NextConcurrent ==
    \/ TrainEnter
    \/ TrainFitScaler
    \/ TrainFitModel
    \/ TrainMarkTrained
    \/ TrainValidate
    \/ AddEnter
    \/ AddSetWeight
    \/ InferEnter
    \/ InferGenerate
    \/ InferTransform
    \/ InferCombine

SpecConcurrent == InitConcurrent /\ [][NextConcurrent]_vars

InferenceAnswered == threads.inference.pc = "done" /\ ~threads.inference.raised

(* C13: while one thread re-trains or re-registers, an inference call that  *)
(* answers has used the scaler and the combiner of one and the same fit,    *)
(* and has not read a registry whose new entry still lacked its weight.     *)
C13_InferenceSeesOneVersion ==
    InferenceAnswered =>
        /\ threads.inference.scaler_version = threads.inference.model_version
        /\ ~threads.inference.weight_pending

----------------------------------------------------------------------------
(* C14: the trained flag of the meta-learner starts false, never goes back  *)
(* to false, and goes from false to true only in a step that is a train     *)
(* call which returned.                                                     *)
C14_TrainedFlagOneWay ==
    /\ ~ml.is_trained
    /\ [][ /\ ml.is_trained => ml'.is_trained
           /\ (~ml.is_trained /\ ml'.is_trained) =>
                  (ml_call'.op = "train" /\ ~ml_call'.raised) ]_vars

----------------------------------------------------------------------------
(* Properties of the confidence scorer, read off the ML layer's answer.     *)

\* the ML layer answered and the decision record carries its answer
MLAnswered == PredictionMade /\ ~prediction.result.raised

\* the largest of the ensemble probabilities
Peak(probabilities) ==
    CHOOSE p \in SeqRange(probabilities) : \A q \in SeqRange(probabilities) : RLe(q, p)

\* the variance of the values as the mean of the squares less the squared mean
SpreadOf(values) ==
    RSub(Mean([k \in DOMAIN values |-> RMul(values[k], values[k])]),
         RMul(Mean(values), Mean(values)))

\* the mean over the classes of the variance across the distributions
AverageSpread(dists) ==
    Mean([c \in DOMAIN dists[1] |-> SpreadOf([k \in DOMAIN dists |-> dists[k][c]])])

(* C15: the confidence lies in [0, 1]; when there is an ensemble            *)
(* distribution it is the peak for fewer than two individual distributions, *)
(* otherwise min(peak / (1 + average variance), 1), and never above peak.   *)
C15_ConfidenceIsDiscountedPeak ==
    MLAnswered =>
        LET answer == prediction.result.ml_prediction
            confidence == answer.confidence
            individual == answer.individual_probabilities
        IN  /\ RLe(RZero, confidence) /\ RLe(confidence, ROne)
            /\ answer.ensemble_probabilities # None =>
                 LET peak == Peak(answer.ensemble_probabilities)
                 IN  /\ RLe(confidence, peak)
                     /\ Len(individual) < 2 => confidence = peak
                     /\ Len(individual) >= 2 =>
                          confidence =
                              RMin(RDiv(peak, RAdd(ROne, AverageSpread(individual))), ROne)

\* two base models answered differently and the confidence is below the peak
C15_Witness ==
    /\ MLAnswered
    /\ Len(prediction.result.ml_prediction.individual_probabilities) = 2
    /\ prediction.result.ml_prediction.individual_probabilities[1]
           # prediction.result.ml_prediction.individual_probabilities[2]
    /\ RLt(prediction.result.ml_prediction.confidence,
           Peak(prediction.result.ml_prediction.ensemble_probabilities))

----------------------------------------------------------------------------
(* Properties of the final recommendation.                                  *)

InUnit(x) == RLe(RZero, x) /\ RLe(x, ROne)

\* a confidence term, or the neutral 0.5 when the term is not available
TermOr(available, term) == IF available THEN term ELSE Hundredths(50)

(* C16: the overall confidence is the mean of four terms in [0, 1]: the ML  *)
(* confidence, the match-analysis confidence, the team-comparison           *)
(* confidence and the odds-analysis confidence, where a term that is not    *)
(* available (the odds term of a match without odds data, the team term of  *)
(* a team analysis that carries none) counts as 0.5.                        *)
C16_OverallConfidenceIsMeanOfFour ==
    MLAnswered =>
        LET result == prediction.result
            terms == << result.ml_prediction.confidence,
                        result.match_analysis.confidence,
                        TermOr("confidence" \in DOMAIN _analyze_teams, Hundredths(50)),
                        TermOr(result.odds_analysis.odds_available,
                               result.odds_analysis.confidence) >>
        IN  /\ \A i \in DOMAIN terms : InUnit(terms[i])
            /\ result.final_recommendation.confidence = Mean(terms)

\* neither the home boost nor the away boost applies to the request
NoBoost ==
    /\ ~RGt(_analyze_teams.comparison.home_advantage, Hundredths(60))
    /\ ~RGt(_analyze_teams.comparison.away_advantage, Hundredths(60))

(* C17: the final distribution of a decision sums to 1, and without a boost *)
(* it is the ML distribution divided by its own sum: the ML distribution    *)
(* itself when that already sums to 1.                                      *)
C17_FinalDistributionNormalized ==
    (MLAnswered /\ RGt(RSum(prediction.result.ml_prediction.ensemble_probabilities), RZero)) =>
        LET ml_probs == prediction.result.ml_prediction.ensemble_probabilities
            final == prediction.result.final_recommendation.probabilities
        IN  /\ RSum(final) = ROne
            /\ NoBoost =>
                 /\ \A i \in DOMAIN ml_probs : final[i] = RDiv(ml_probs[i], RSum(ml_probs))
                 /\ RSum(ml_probs) = ROne => final = ml_probs

\* a decision without a boost whose ML distribution is the average of two
\* different base model distributions
C17_Witness ==
    /\ MLAnswered
    /\ NoBoost
    /\ prediction.result.ml_prediction.meta_probabilities = None
    /\ Len(prediction.result.ml_prediction.individual_probabilities) = 2
    /\ prediction.result.ml_prediction.ensemble_probabilities
           \notin SeqRange(prediction.result.ml_prediction.individual_probabilities)
    /\ prediction.result.final_recommendation.probabilities
           = prediction.result.ml_prediction.ensemble_probabilities

----------------------------------------------------------------------------
(* The risk label on its own: _assess_risk is applied to final              *)
(* distributions and overall confidences on and around its thresholds.      *)

\* final distributions (home, draw, away), in hundredths
RiskDistributions ==
    { <<Hundredths(p[1]), Hundredths(p[2]), Hundredths(p[3])>> :
        p \in { <<34, 33, 33>>, <<40, 40, 20>>, <<40, 35, 25>>, <<45, 30, 25>>,
                <<45, 35, 20>>, <<50, 30, 20>>, <<51, 29, 20>>, <<20, 20, 60>>,
                <<19, 20, 61>>, <<10, 70, 20>>, <<100, 0, 0>> } }

\* overall confidences, in hundredths
RiskConfidences == { Hundredths(c) : c \in {0, 30, 40, 41, 50, 60, 61, 70, 80, 81, 90, 100} }

InitRisk ==
    /\ sport = "premier_league"
    /\ odds_data = OddsMissing("None")
    /\ odds_call = NoCall
    /\ kelly_call = KellyIdle
    /\ models = ModelsIdle
    /\ ml = MetaIdle
    /\ ml_call = NoCall
    /\ ensemble = EnsembleIdle
    /\ prediction = NoCall
    /\ threads = NoThreads
    /\ users = NoUsers
    /\ limiter = NoLimiter

AssessRisk ==
    /\ \E probabilities \in RiskDistributions, confidence \in RiskConfidences :
         prediction' = [op |-> "_assess_risk", probabilities |-> probabilities,
                        confidence |-> confidence,
                        risk |-> _assess_risk(probabilities, confidence)]
    /\ UNCHANGED <<users, limiter, threads, sport, odds_data, odds_call, kelly_call, models, ml, ml_call, ensemble>>

NextRisk == AssessRisk

SpecRisk == InitRisk /\ [][NextRisk]_vars

RiskAssessed == prediction.op = "_assess_risk"

\* the smallest of the probabilities
Lowest(probabilities) ==
    CHOOSE p \in SeqRange(probabilities) : \A q \in SeqRange(probabilities) : RLe(p, q)

LowRule(probabilities, confidence) ==
    RGt(confidence, Hundredths(80)) /\ RGt(Peak(probabilities), Hundredths(60))

MediumRule(probabilities, confidence) ==
    RGt(confidence, Hundredths(60)) /\ RGt(Peak(probabilities), Hundredths(50))

MediumHighRule(probabilities, confidence) ==
    /\ RGt(confidence, Hundredths(40))
    /\ RGt(RSub(Peak(probabilities), Lowest(probabilities)), Hundredths(20))

(* C18: the risk label is one of four and is fixed by the first rule that   *)
(* matches, in the order Low, Medium, Medium-High; High when none matches.  *)
C18_RiskIsFirstMatchingRule ==
    RiskAssessed =>
        LET p == prediction.probabilities
            c == prediction.confidence
            low == LowRule(p, c)
            medium == ~low /\ MediumRule(p, c)
            medium_high == ~low /\ ~MediumRule(p, c) /\ MediumHighRule(p, c)
        IN  /\ prediction.risk \in {"Low Risk", "Medium Risk", "Medium-High Risk", "High Risk"}
            /\ prediction.risk = "Low Risk" <=> low
            /\ prediction.risk = "Medium Risk" <=> medium
            /\ prediction.risk = "Medium-High Risk" <=> medium_high
            /\ prediction.risk = "High Risk" <=> ~(low \/ medium \/ medium_high)

\* all three rules match and the first one gives the label
C18_Witness ==
    /\ RiskAssessed
    /\ LowRule(prediction.probabilities, prediction.confidence)
    /\ MediumRule(prediction.probabilities, prediction.confidence)
    /\ MediumHighRule(prediction.probabilities, prediction.confidence)
    /\ prediction.risk = "Low Risk"

----------------------------------------------------------------------------
(* C19: for match data whose odds are missing, empty or without a           *)
(* bookmakers entry, analyze_match_odds does not raise and returns the      *)
(* no-odds marker with no value bets and no arbitrage opportunities.        *)
C19_NoOddsGivesMarker ==
    (odds_call.op = "analyze_match_odds" /\ odds_data.kind # "bookmakers") =>
        /\ ~odds_call.result.raised
        /\ ~odds_call.result.odds_available
        /\ odds_call.result.value_bets = <<>>
        /\ odds_call.result.arbitrage_opportunities = <<>>

\* the odds were a dictionary without a bookmakers entry
C19_Witness ==
    /\ odds_call.op = "analyze_match_odds"
    /\ odds_data.kind = "no_bookmakers_key"
    /\ ~odds_call.result.odds_available

----------------------------------------------------------------------------
(* Properties of registration.                                              *)

\* the names other than name keep their places and their weights
OthersKept(name) ==
    /\ Without(ml'.base_models, name) = Without(ml.base_models, name)
    /\ \A n \in Registered(ml) \ {name} : ml'.model_weights[n] = ml.model_weights[n]

\* how many entries the registry holds for name
EntriesFor(m, name) == Cardinality({ i \in DOMAIN m.base_models : m.base_models[i] = name })

(* C20: add_base_model is idempotent by name: a second registration of the   *)
(* same name and weight changes nothing, and a registration of a registered  *)
(* name leaves one entry for it, in its place, with the weight of the last   *)
(* call, and every other entry as it was.                                    *)
C20_RegistrationIdempotentByName ==
    [][ ml_call'.op = "add_base_model" =>
          /\ EntriesFor(ml', ml_call'.name) = 1
          /\ ml'.model_weights[ml_call'.name] = ml_call'.weight
          /\ OthersKept(ml_call'.name)
          /\ ml_call'.name \in Registered(ml) => ml'.base_models = ml.base_models
          /\ (ml_call.op = "add_base_model" /\ ml_call' = ml_call) =>
                 (ml'.base_models = ml.base_models /\ ml'.model_weights = ml.model_weights)
      ]_vars

\* a name that was trained on with one weight is registered with another
C20_Witness ==
    /\ ml_call.op = "add_base_model"
    /\ ml.train_returned
    /\ \E i \in DOMAIN ml.model.features :
         /\ ml.model.features[i].name = ml_call.name
         /\ ml.model.features[i].factor # ml_call.weight
    /\ ml.model_weights[ml_call.name] = ml_call.weight
    /\ EntriesFor(ml, ml_call.name) = 1

----------------------------------------------------------------------------
(* Properties of what train leaves behind.                                  *)

\* the last call was a train call that returned
TrainReturned == ml_call.op = "train" /\ ~ml_call.raised

(* C21: the combiner train stores is fitted on every record of the batch    *)
(* it was given, not only on the training part of the 80/20 split.          *)
C21_CombinerFittedOnWholeBatch ==
    TrainReturned => ml.model.rows = Rows(ml_call.batch)

----------------------------------------------------------------------------
(* Properties of the market efficiency report.                              *)

\* the sum over a market's outcomes of the mean of 1/odds, as quoted
RawInverseSum(market) ==
    LET os == odds_call.result.odds_summary
    IN  IF market = "h2h"
        THEN RAdd(MeanInverse(os.h2h["home"]),
                  RAdd(MeanInverse(os.h2h["away"]), MeanInverse(os.h2h["draw"])))
        ELSE RAdd(MeanInverse(os.spreads["home"]), MeanInverse(os.spreads["away"]))

(* C22: the overround reported for a market is the raw sum of the mean      *)
(* inverse odds of its outcomes less 1, and the efficiency is 1 over that   *)
(* raw sum, whether or not the implied probabilities were renormalized.     *)
C22_OverroundIsRawMargin ==
    AnalysisReturned =>
        \A market \in {"h2h", "spreads"} :
            RGt(RawInverseSum(market), RZero) =>
                /\ odds_call.result.market_efficiency[market].overround
                       = RSub(RawInverseSum(market), ROne)
                /\ odds_call.result.market_efficiency[market].efficiency
                       = RDiv(ROne, RawInverseSum(market))

----------------------------------------------------------------------------
(* The blender on its own: _generate_final_recommendation is applied to ML  *)
(* distributions and to the comparison of two teams of any rating.          *)

\* overall ratings of a team, in hundredths
TeamRatings == { Hundredths(r) : r \in {0, 10, 20, 70, 80, 100} }

\* ML distributions (home, draw, away), some with two or three equal peaks
BlendDistributions ==
    { <<Hundredths(p[1]), Hundredths(p[2]), Hundredths(p[3])>> :
        p \in { <<70, 10, 20>>, <<40, 40, 20>>, <<20, 40, 40>>, <<30, 40, 30>>,
                <<40, 20, 40>> } }

InitBlend ==
    /\ sport = "premier_league"
    /\ odds_data = OddsMissing("None")
    /\ odds_call = NoCall
    /\ kelly_call = KellyIdle
    /\ models = ModelsIdle
    /\ ml = MetaIdle
    /\ ml_call = NoCall
    /\ ensemble = EnsembleIdle
    /\ prediction = NoCall
    /\ threads = NoThreads
    /\ users = NoUsers
    /\ limiter = NoLimiter

Blend ==
    /\ \E home_rating \in TeamRatings, away_rating \in TeamRatings,
          ml_probs \in BlendDistributions, match_data \in MatchDataChoices :
         LET home_analysis == [analyze_team EXCEPT !.overall_rating = home_rating]
             away_analysis == [analyze_team EXCEPT !.overall_rating = away_rating]
             team_analysis == [home_team |-> home_analysis,
                               away_team |-> away_analysis,
                               comparison |-> compare_teams(home_analysis, away_analysis)]
             ml_prediction == [raised |-> FALSE, ensemble_probabilities |-> ml_probs,
                               confidence |-> MaxOf(ml_probs)]
         IN  prediction' =
                 [op |-> "_generate_final_recommendation",
                  ml_probs |-> ml_probs,
                  team_comparison |-> team_analysis.comparison,
                  result |-> _generate_final_recommendation(
                                 ml_prediction, analyze_match(match_data), team_analysis,
                                 analyze_match_odds(odds_data))]
    /\ UNCHANGED <<users, limiter, threads, sport, odds_data, odds_call, kelly_call, models, ml, ml_call, ensemble>>

NextBlend == Blend

SpecBlend == InitBlend /\ [][NextBlend]_vars

Blended == prediction.op = "_generate_final_recommendation"

\* 0.05 for a signal above 0.6, nothing otherwise
BoostFor(signal) == IF RGt(signal, Hundredths(60)) THEN Hundredths(5) ELSE RZero

(* C23: before the final distribution is renormalized the home slot gets    *)
(* +0.05 when the home signal is above 0.6 and the away slot +0.05 when the *)
(* away signal is above 0.6; the draw slot gets nothing, and a signal of at *)
(* most 0.6 gives nothing.                                                  *)
C23_BoostsBeforeRenormalization ==
    Blended =>
        LET ml_probs == prediction.ml_probs
            before == << RAdd(RMul(ml_probs[1], Hundredths(60)),
                              BoostFor(prediction.team_comparison.home_advantage)),
                         RMul(ml_probs[2], Hundredths(60)),
                         RAdd(RMul(ml_probs[3], Hundredths(60)),
                              BoostFor(prediction.team_comparison.away_advantage)) >>
        IN  \A i \in 1 .. 3 :
                prediction.result.probabilities[i] = RDiv(before[i], RSum(before))

\* the away signal is strong and the away slot has grown
C23_Witness ==
    /\ Blended
    /\ RGt(prediction.team_comparison.away_advantage, Hundredths(60))
    /\ RGt(prediction.result.probabilities[3], prediction.ml_probs[3])
    /\ RLt(prediction.result.probabilities[1], prediction.ml_probs[1])

----------------------------------------------------------------------------
(* Properties of the ML layer's answer.                                     *)

(* C24: the class the ensemble predicts is an index of the largest entry of *)
(* the distribution it returns with it, on the meta-learner path and on the *)
(* fallback path of majority vote and averaged probabilities.               *)
C24_PredictedClassIsArgmax ==
    MLAnswered =>
        LET answer == prediction.result.ml_prediction
        IN  /\ answer.ensemble_prediction # None
            /\ answer.ensemble_probabilities[answer.ensemble_prediction[1] + 1]
                   = Peak(answer.ensemble_probabilities)

\* the classes (from 0) at which the values are largest
PeakClasses(values) ==
    { c \in 0 .. Len(values) - 1 : \A d \in DOMAIN values : RLe(values[d], values[c + 1]) }

\* the lowest of a non-empty set of class indices
LowestOf(classes) == CHOOSE c \in classes : \A d \in classes : c <= d

\* how many of the distributions have class c as their lowest peak class
VotesFor(dists, c) == Cardinality({ k \in DOMAIN dists : LowestOf(PeakClasses(dists[k])) = c })

\* the classes with the most votes
MostVoted(dists) ==
    { c \in 0 .. 2 : \A d \in 0 .. 2 : VotesFor(dists, d) <= VotesFor(dists, c) }

\* the ML layer fell back on the vote of the base models
FellBack == MLAnswered /\ prediction.result.ml_prediction.meta_prediction = None

(* C25: among classes tied for the maximum the lowest class index is taken, *)
(* by the recommendation over the final distribution and by the fallback    *)
(* majority vote over the base models' predictions.                         *)
C25_TiesGoToLowestIndex ==
    /\ MLAnswered =>
         prediction.result.final_recommendation.recommendation
             = labels[LowestOf(PeakClasses(
                   prediction.result.final_recommendation.probabilities)) + 1]
    /\ FellBack =>
         prediction.result.ml_prediction.ensemble_prediction
             = <<LowestOf(MostVoted(prediction.result.ml_prediction.individual_probabilities))>>

\* two base models voted for different classes and the lower class won
C25_Witness ==
    /\ FellBack
    /\ Cardinality(MostVoted(prediction.result.ml_prediction.individual_probabilities)) = 2
    /\ prediction.result.ml_prediction.ensemble_prediction
           = <<LowestOf(MostVoted(prediction.result.ml_prediction.individual_probabilities))>>

----------------------------------------------------------------------------
(* C26: a predict_proba call that returns has built its stacked-feature     *)
(* record from the adapters, and with the weights, of the record the stored *)
(* combiner was last fitted on.                                             *)
C26_InferenceRecordAsFitted ==
    (ml_call.op = "predict_proba" /\ ~ml_call.raised) =>
        { <<ml_call.record[i].name, ml_call.record[i].factor>> : i \in DOMAIN ml_call.record }
            = { <<ml.model.features[i].name, ml.model.features[i].factor>> :
                    i \in DOMAIN ml.model.features }

----------------------------------------------------------------------------
(* C27: the ensemble counts as trained only if a base model or the          *)
(* meta-learner has been trained; when every training of train_ensemble     *)
(* failed, predict_match is still rejected as untrained.                    *)
C27_TrainedNeedsATrainedComponent ==
    /\ ensemble.is_trained => (ml.is_trained \/ \E n \in AdapterNames : models[n].is_trained)
    /\ (PredictionMade /\ ~ml.is_trained /\ \A n \in AdapterNames : ~models[n].is_trained) =>
           (prediction.result.raised /\ prediction.result.error = "ensemble_not_trained")

----------------------------------------------------------------------------
(* C28: when the odds analysis of a decision lists a value bet, the         *)
(* betting recommendation is positive and names the outcome, the expected   *)
(* value and the bookmaker of the listed bet with the highest expected      *)
(* value.                                                                   *)
C28_ValueBetIsRecommended ==
    (MLAnswered /\ prediction.result.odds_analysis.value_bets # <<>>) =>
        LET value_bets == prediction.result.odds_analysis.value_bets
            best == value_bets[CHOOSE i \in DOMAIN value_bets :
                        \A j \in DOMAIN value_bets :
                            RLe(value_bets[j].expected_value, value_bets[i].expected_value)]
            told == prediction.result.final_recommendation.betting_recommendation
        IN  /\ told.recommended
            /\ told.bet_type = best.outcome
            /\ told.expected_value = best.expected_value
            /\ told.bookmaker = best.bookmaker

----------------------------------------------------------------------------
(* UserManager (telegram_bot/user_manager.py): coroutines of one event loop *)
(* call the operations that take self.lock, an asyncio.Lock.  A coroutine   *)
(* runs from one await to the next without interruption; it can be         *)
(* suspended where it acquires the lock and where it saves the file.        *)

UserIds == {1, 2}

Tasks == {"t1", "t2"}

LockOps ==
    {"register_user", "update_user_preferences", "subscribe_user_to_sport",
     "unsubscribe_user_from_sport", "log_user_activity"}

\* the operations that register a user they do not know
RegisteringOps == {"update_user_preferences", "subscribe_user_to_sport", "log_user_activity"}

\* log_user_activity saves when the log length is a multiple of 10
SaveEvery == 10

\* log_user_activity keeps the last 100 activities
LogKept == 100

Unregistered == [registered |-> FALSE, subscribed |-> FALSE, activities |-> 0]

\* the entry register_user creates
NewUser == [registered |-> TRUE, subscribed |-> FALSE, activities |-> 0]

\* a user who subscribed to the sport and has 9 activities logged
BusyUser == [registered |-> TRUE, subscribed |-> TRUE, activities |-> SaveEvery - 1]

IdleTask == [pc |-> "idle", op |-> "none", uid |-> 1, nested |-> FALSE]

InitUsers ==
    /\ sport = "premier_league"
    /\ odds_data = OddsMissing("None")
    /\ odds_call = NoCall
    /\ kelly_call = KellyIdle
    /\ models = ModelsIdle
    /\ ml = MetaIdle
    /\ ml_call = NoCall
    /\ ensemble = EnsembleIdle
    /\ prediction = NoCall
    /\ threads = NoThreads
    /\ limiter = NoLimiter
    /\ \E data \in [UserIds -> {Unregistered, NewUser, BusyUser}] :
         users = [users_data |-> data, lock |-> "free", tasks |-> [t \in Tasks |-> IdleTask]]

UsersUnchanged ==
    UNCHANGED <<limiter, threads, sport, odds_data, odds_call, kelly_call, models, ml, ml_call,
                ensemble, prediction>>

\* the statements of an operation between taking the lock and its next
\* await or its return: the users afterwards, and what comes then
Body(op, data, uid) ==
    LET user == data[uid]
        logged == IF user.activities + 1 > LogKept THEN LogKept ELSE user.activities + 1
    IN  CASE op = "register_user" ->
               [data |-> IF user.registered THEN data ELSE [data EXCEPT ![uid] = NewUser],
                then |-> "save"]
          [] op = "unsubscribe_user_from_sport" ->
               IF user.registered /\ user.subscribed
               THEN [data |-> [data EXCEPT ![uid].subscribed = FALSE], then |-> "save"]
               ELSE [data |-> data, then |-> "return"]
          [] op \in RegisteringOps /\ ~user.registered ->
               [data |-> data, then |-> "register_user"]
          [] op = "update_user_preferences" /\ user.registered ->
               [data |-> data, then |-> "save"]
          [] op = "subscribe_user_to_sport" /\ user.registered ->
               IF user.subscribed THEN [data |-> data, then |-> "return"]
               ELSE [data |-> [data EXCEPT ![uid].subscribed = TRUE], then |-> "save"]
          [] op = "log_user_activity" /\ user.registered ->
               [data |-> [data EXCEPT ![uid].activities = logged],
                then |-> IF logged % SaveEvery = 0 THEN "save" ELSE "return"]

\* a coroutine calls an operation and reaches its async with self.lock
Call(t) ==
    /\ users.tasks[t].pc = "idle"
    /\ \E op \in LockOps, uid \in UserIds :
         users' = [users EXCEPT !.tasks[t] = [pc |-> "acquire", op |-> op, uid |-> uid,
                                              nested |-> FALSE]]
    /\ UsersUnchanged

\* async with self.lock is entered, by the operation or by the register_user
\* it awaits, and the statements up to the next await run
Acquire(t) ==
    /\ users.tasks[t].pc = "acquire"
    /\ users.lock = "free"
    /\ LET task == users.tasks[t]
           body == Body(IF task.nested THEN "register_user" ELSE task.op,
                        users.users_data, task.uid)
       IN  users' =
               [users EXCEPT
                   !.users_data = body.data,
                   !.lock = IF body.then = "return" THEN "free" ELSE t,
                   !.tasks[t].pc = CASE body.then = "save" -> "save"
                                     [] body.then = "return" -> "done"
                                     [] body.then = "register_user" -> "acquire",
                   !.tasks[t].nested = (body.then = "register_user")]
    /\ UsersUnchanged

\* await self._save_users_data() completes and the async with block is left,
\* which releases the lock; a register_user that was awaited returns into
\* the operation that awaited it
Save(t) ==
    /\ users.tasks[t].pc = "save"
    /\ LET task == users.tasks[t]
           body == Body(task.op, users.users_data, task.uid)
       IN  users' =
               IF ~task.nested
               THEN [users EXCEPT !.lock = "free", !.tasks[t].pc = "done"]
               ELSE [users EXCEPT
                        !.users_data = body.data,
                        !.lock = "free",
                        !.tasks[t].pc = IF body.then = "save" THEN "save" ELSE "done",
                        !.tasks[t].nested = FALSE]
    /\ UsersUnchanged

NextUsers == \E t \in Tasks : Call(t) \/ Acquire(t) \/ Save(t)

SpecUsers == InitUsers /\ [][NextUsers]_vars

\* the event loop resumes every coroutine that can go on, and asyncio.Lock
\* wakes its waiters in turn
SpecUsersLive ==
    /\ SpecUsers
    /\ \A t \in Tasks : SF_vars(Acquire(t)) /\ WF_vars(Save(t))

\* the operation of coroutine t has returned, the lock is not left with t,
\* and the user is registered if the operation is one that registers
Returned(t) ==
    /\ users.tasks[t].pc = "done"
    /\ users.lock # t
    /\ users.tasks[t].op \in RegisteringOps => users.users_data[users.tasks[t].uid].registered

(* C29: every operation that takes the user lock returns and leaves the     *)
(* lock free for the next one; update_user_preferences,                     *)
(* subscribe_user_to_sport and log_user_activity called for an unknown user *)
(* return with the user registered.                                         *)
C29_LockOperationsReturn ==
    \A t \in Tasks : (users.tasks[t].pc \in {"acquire", "save"}) ~> Returned(t)

----------------------------------------------------------------------------
(* RateLimiter.wait_if_needed (utils/rate_limiter.py:21-43) for one         *)
(* identifier.  Time is in seconds.  The call is synchronous and sleeps     *)
(* with time.sleep, so nothing else runs on the thread while it waits: the  *)
(* whole call is one step, and the clock moves forward by the time slept.   *)
(* released is the history of the times at which the calls returned; the    *)
(* program keeps no such list.                                              *)

\* the 60 seconds of cutoff_time and wait_time
Window == 60

\* the clock is not moved by Tick beyond MaxTime
MaxTime == 90

\* the number of wait_if_needed calls
MaxCalls == 4

\* the values of requests_per_minute
Limits == {1, 2}

\* the time that passes between two calls
TickSteps == {10, 30}

InitLimiter ==
    /\ sport = "premier_league"
    /\ odds_data = OddsMissing("None")
    /\ odds_call = NoCall
    /\ kelly_call = KellyIdle
    /\ models = ModelsIdle
    /\ ml = MetaIdle
    /\ ml_call = NoCall
    /\ ensemble = EnsembleIdle
    /\ prediction = NoCall
    /\ threads = NoThreads
    /\ users = NoUsers
    /\ \E rpm \in Limits :
         limiter = [requests_per_minute |-> rpm, now |-> 0, request_times |-> <<>>,
                    released |-> <<>>]

LimiterUnchanged ==
    UNCHANGED <<users, threads, sport, odds_data, odds_call, kelly_call, models, ml, ml_call,
                ensemble, prediction>>

\* time passes while no call is in progress
Tick ==
    /\ \E d \in TickSteps :
         /\ limiter.now + d <= MaxTime
         /\ limiter' = [limiter EXCEPT !.now = limiter.now + d]
    /\ LimiterUnchanged

\* the while loop of lines 27-29: popleft while the oldest entry is older
\* than the cutoff
RECURSIVE Purge(_, _)
Purge(times, cutoff_time) ==
    IF times # <<>> /\ Head(times) < cutoff_time THEN Purge(Tail(times), cutoff_time)
    ELSE times

WaitIfNeeded ==
    /\ Len(limiter.released) < MaxCalls
    /\ LET current_time == limiter.now
           cutoff_time == current_time - Window
           kept == Purge(limiter.request_times, cutoff_time)
           full == Len(kept) >= limiter.requests_per_minute
           wait_time == IF full THEN Window - (current_time - Head(kept)) ELSE 0
           slept == IF wait_time > 0 THEN wait_time ELSE 0
       IN  limiter' = [limiter EXCEPT
                          !.now = current_time + slept,
                          !.request_times = Append(kept, current_time),
                          !.released = Append(limiter.released, current_time + slept)]
    /\ LimiterUnchanged

NextLimiter == Tick \/ WaitIfNeeded

SpecLimiter == InitLimiter /\ [][NextLimiter]_vars

\* the calls released in the 60 seconds that start at time from
ReleasedIn(from) ==
    {i \in DOMAIN limiter.released :
        from <= limiter.released[i] /\ limiter.released[i] < from + Window}

\* no 60 seconds hold more releases than requests_per_minute
WindowBounded ==
    \A i \in DOMAIN limiter.released :
        Cardinality(ReleasedIn(limiter.released[i])) <= limiter.requests_per_minute

\* the time recorded for the last call is the time it was released
RecordedAsReleased ==
    limiter.released # <<>> =>
        limiter.request_times[Len(limiter.request_times)]
            = limiter.released[Len(limiter.released)]

(* C30: whatever the sequence of wait_if_needed calls, no sliding window of *)
(* 60 seconds holds more released calls than requests_per_minute, and the   *)
(* timestamp recorded in request_times for a call is the time at which the  *)
(* call was released.                                                       *)
C30_AtMostLimitPerWindow == WindowBounded /\ RecordedAsReleased

=============================================================================
